---------------------------- MODULE Spec2Model ----------------------------
(***************************************************************************)
(* Knowledge resolution pipeline of the vehicle diagnosis assistant:       *)
(*   app/providers/search.py  _sanitize_summary, _web_search_for_code,     *)
(*                            _summarize_with_gemini, get_external_obd     *)
(*   app/services/obd.py      validate_obd_code, get_obd_info              *)
(* Python strings are TLA+ strings; Python lists are sequences; None is    *)
(* the value NoneV.                                                        *)
(***************************************************************************)
EXTENDS Integers, Sequences, FiniteSets, TLC

(***************************************************************************)
(* Python str primitives.                                                  *)
(***************************************************************************)
UpperAlpha == "ABCDEFGHIJKLMNOPQRSTUVWXYZ"
LowerAlpha == "abcdefghijklmnopqrstuvwxyz"
DigitChars == {"0", "1", "2", "3", "4", "5", "6", "7", "8", "9"}
WS == {" ", "\n", "\t"}

Char(s, i) == SubSeq(s, i, i)

SetMin(S) == CHOOSE x \in S : \A y \in S : x <= y

\* position of character c in alpha, 0 when absent
IndexIn(c, alpha) ==
    LET I == {i \in 1..Len(alpha) : Char(alpha, i) = c}
    IN  IF I = {} THEN 0 ELSE SetMin(I)

UpperChars == {Char(UpperAlpha, i) : i \in 1..Len(UpperAlpha)}
LowerChars == {Char(LowerAlpha, i) : i \in 1..Len(LowerAlpha)}
ToLower == [c \in UpperChars |-> Char(LowerAlpha, IndexIn(c, UpperAlpha))]
ToUpper == [c \in LowerChars |-> Char(UpperAlpha, IndexIn(c, LowerAlpha))]

LowerChar(c) == IF c \in UpperChars THEN ToLower[c] ELSE c

UpperChar(c) == IF c \in LowerChars THEN ToUpper[c] ELSE c

\* str.lower() and str.upper(), by halves to keep the recursion shallow
RECURSIVE LowerRange(_, _, _)
LowerRange(s, lo, hi) ==
    IF lo > hi THEN ""
    ELSE IF lo = hi THEN LowerChar(Char(s, lo))
    ELSE LowerRange(s, lo, (lo + hi) \div 2) \o LowerRange(s, ((lo + hi) \div 2) + 1, hi)

Lower(s) == LowerRange(s, 1, Len(s))

RECURSIVE UpperRange(_, _, _)
UpperRange(s, lo, hi) ==
    IF lo > hi THEN ""
    ELSE IF lo = hi THEN UpperChar(Char(s, lo))
    ELSE UpperRange(s, lo, (lo + hi) \div 2) \o UpperRange(s, ((lo + hi) \div 2) + 1, hi)

Upper(s) == UpperRange(s, 1, Len(s))

\* str.find: 0-based index of the first occurrence of t in s, -1 when absent
Find(s, t) ==
    LET n == Len(s)
        m == Len(t)
        I == {i \in 0..(n - m) : SubSeq(s, i + 1, i + m) = t}
    IN  IF I = {} THEN -1 ELSE SetMin(I)

\* t in s
Contains(s, t) == \E i \in 0..(Len(s) - Len(t)) : SubSeq(s, i + 1, i + Len(t)) = t

StartsWith(s, t) == Len(s) >= Len(t) /\ SubSeq(s, 1, Len(t)) = t
EndsWith(s, t) == Len(s) >= Len(t) /\ SubSeq(s, Len(s) - Len(t) + 1, Len(s)) = t

LStripSet(s, cs) ==
    LET I == {i \in 1..Len(s) : Char(s, i) \notin cs}
    IN  IF I = {} THEN "" ELSE SubSeq(s, SetMin(I), Len(s))

RStripSet(s, cs) ==
    LET I == {i \in 1..Len(s) : \A j \in i..Len(s) : Char(s, j) \in cs}
    IN  IF I = {} THEN s ELSE SubSeq(s, 1, SetMin(I) - 1)

\* str.strip(chars) and str.strip()
StripSet(s, cs) == RStripSet(LStripSet(s, cs), cs)
Strip(s) == StripSet(s, WS)

\* re.sub(r"\s+", " ", s): a run of whitespace leaves one space, at its first character
RECURSIVE CollapseRange(_, _, _)
CollapseRange(s, lo, hi) ==
    IF lo > hi THEN ""
    ELSE IF lo = hi
         THEN (IF Char(s, lo) \notin WS THEN Char(s, lo)
               ELSE IF lo > 1 /\ Char(s, lo - 1) \in WS THEN "" ELSE " ")
    ELSE CollapseRange(s, lo, (lo + hi) \div 2) \o CollapseRange(s, ((lo + hi) \div 2) + 1, hi)

CollapseWs(s) == CollapseRange(s, 1, Len(s))

\* regex \w
WordChars == UpperChars \cup LowerChars \cup DigitChars \cup {"_"}
IsWordChar(c) == c \in WordChars

\* regex \b at the gap before 1-based position i of s (i in 1..Len(s)+1)
WordBoundary(s, i) ==
    LET before == i > 1 /\ IsWordChar(Char(s, i - 1))
        after  == i <= Len(s) /\ IsWordChar(Char(s, i))
    IN  before # after

\* str.split(sep) on a set of single-character separators, empty pieces kept
RECURSIVE SplitOn(_, _)
SplitOn(s, seps) ==
    LET I == {i \in 1..Len(s) : Char(s, i) \in seps}
    IN  IF I = {} THEN <<s>>
        ELSE LET i == SetMin(I)
             IN  <<SubSeq(s, 1, i - 1)>> \o SplitOn(SubSeq(s, i + 1, Len(s)), seps)

\* sep.join(items)
RECURSIVE Join(_, _)
Join(sep, items) ==
    IF items = <<>> THEN ""
    ELSE IF Len(items) = 1 THEN items[1]
    ELSE items[1] \o sep \o Join(sep, Tail(items))

\* list comprehension [x.strip() for x in items if x.strip()]
RECURSIVE StripNonEmpty(_)
StripNonEmpty(items) ==
    IF items = <<>> THEN <<>>
    ELSE LET x == Strip(Head(items))
         IN  (IF x = "" THEN <<>> ELSE <<x>>) \o StripNonEmpty(Tail(items))

\* items[:n]
Take(items, n) == SubSeq(items, 1, IF Len(items) < n THEN Len(items) ELSE n)

\* any(k in text for k in ks)
AnyIn(text, ks) == \E k \in ks : Contains(text, k)

SeqToSet(items) == {items[i] : i \in 1..Len(items)}

(***************************************************************************)
(* search.py: _dedupe_str_list, _suggest_checks_from_causes,               *)
(* _sanitize_summary.  A summary is [description, causes, checks].         *)
(***************************************************************************)
RECURSIVE DedupeFrom(_, _)
DedupeFrom(items, seen) ==
    IF items = <<>> THEN <<>>
    ELSE LET s == Strip(Head(items))
             k == Lower(s)
         IN  IF s = "" \/ k \in seen
             THEN DedupeFrom(Tail(items), seen)
             ELSE <<s>> \o DedupeFrom(Tail(items), seen \cup {k})

dedupe_str_list(items) == DedupeFrom(items, {})

suggest_checks_from_causes(causes) ==
    LET text == Lower(Join(" ", causes))
        wiring == IF AnyIn(text, {"wire", "wiring", "harness", "connector",
                                  "communication", "bus", "can", "ecm", "pcm", "tcm"})
                  THEN <<"Inspect wiring harness and connectors",
                         "Ensure connectors are seated and corrosion-free",
                         "Scan for communication errors and module connectivity">>
                  ELSE <<>>
        vacuum == IF AnyIn(text, {"vacuum", "intake"})
                  THEN <<"Check intake and vacuum lines for leaks">> ELSE <<>>
        spark  == IF AnyIn(text, {"spark", "coil", "ignition", "misfire"})
                  THEN <<"Inspect spark plugs and ignition coils">> ELSE <<>>
        sensor == IF AnyIn(text, {"sensor", "maf", "o2", "oxygen"})
                  THEN <<"Verify sensor readings with a scan tool">> ELSE <<>>
        fuel   == IF AnyIn(text, {"fuel", "injector", "pressure"})
                  THEN <<"Test fuel pressure and injector operation">> ELSE <<>>
        checks == dedupe_str_list(wiring \o vacuum \o spark \o sensor \o fuel)
    IN  Take(IF checks = <<>>
             THEN <<"Perform visual inspection and scan for related DTCs">>
             ELSE checks, 6)

bad_desc_terms ==
    <<"what is the meaning", "stack overflow", "stackexchange", "reddit", "quora">>

bad_tokens ==
    {"what is the meaning", "asked", "stack overflow", "stackexchange", "reddit",
     "quora", "http", "www.", "i bought", "my car", "yesterday", "today", "please",
     "thanks", "anyone", "someone said", "forum", "thread", "help"}

allowed_verbs ==
    {"inspect", "check", "test", "scan", "verify", "clean", "replace", "tighten",
     "swap", "measure", "perform"}

\* the loop over bad_desc_terms: cut at the first term OF THE LIST that occurs
sanitize_desc(description) ==
    LET desc == CollapseWs(Strip(description))
        low  == Lower(desc)
        hits == {k \in 1..Len(bad_desc_terms) : Find(low, bad_desc_terms[k]) # -1}
    IN  IF hits = {} THEN desc
        ELSE LET idx == Find(low, bad_desc_terms[SetMin(hits)])
             IN  RStripSet(Strip(SubSeq(desc, 1, idx)), {"-", ":", ";", ","})

\* a match of dtc_re = \b[PBCU][0-9]{4}\b (IGNORECASE) starts at position i of s
DtcMatchAt(s, i) ==
    /\ i + 4 <= Len(s)
    /\ LowerChar(Char(s, i)) \in {"p", "b", "c", "u"}
    /\ \A j \in 1..4 : Char(s, i + j) \in DigitChars
    /\ WordBoundary(s, i)
    /\ WordBoundary(s, i + 5)

DtcMatches(s) == {i \in 1..Len(s) : DtcMatchAt(s, i)}

\* dtc_re.search(s): m and m.group(0).upper() != code.upper()
other_dtc_first(code, s) ==
    LET M == DtcMatches(s)
    IN  M # {} /\ Upper(SubSeq(s, SetMin(M), SetMin(M) + 4)) # Upper(code)

cause_kept(code, c) ==
    LET cl == Lower(c)
    IN  /\ ~AnyIn(cl, bad_tokens)
        /\ ~other_dtc_first(code, c)
        /\ Len(c) >= 8
        /\ ~EndsWith(StripSet(c, {".", " "}), "...")
        /\ ~(StartsWith(cl, "this ") \/ StartsWith(cl, "specifically ") \/ StartsWith(cl, "use "))
        /\ Len(c) <= 120

RECURSIVE filter_causes(_, _)
filter_causes(code, raw) ==
    IF raw = <<>> THEN <<>>
    ELSE (IF cause_kept(code, Head(raw)) THEN <<Head(raw)>> ELSE <<>>)
         \o filter_causes(code, Tail(raw))

sanitize_causes(code, causes) ==
    Take(dedupe_str_list(filter_causes(code, StripNonEmpty(causes))), 6)

\* re.sub(r"^\s*check:\s*", "", ck, flags=re.IGNORECASE).strip()
strip_check_prefix(ck) ==
    LET t == LStripSet(ck, WS)
    IN  IF StartsWith(Lower(t), "check:")
        THEN Strip(SubSeq(t, 7, Len(t)))
        ELSE Strip(ck)

check_kept(code, s) ==
    LET sl == Lower(s)
    IN  /\ s # ""
        /\ Len(s) <= 140
        /\ Len(s) >= 12
        /\ ~AnyIn(sl, bad_tokens)
        /\ AnyIn(sl, allowed_verbs)
        /\ ~other_dtc_first(code, s)

RECURSIVE filter_checks(_, _)
filter_checks(code, raw) ==
    IF raw = <<>> THEN <<>>
    ELSE LET s == strip_check_prefix(Head(raw))
         IN  (IF check_kept(code, s) THEN <<s>> ELSE <<>>)
             \o filter_checks(code, Tail(raw))

sanitize_checks(code, checks, causes) ==
    LET kept == filter_checks(code, StripNonEmpty(checks))
    IN  Take(dedupe_str_list(IF Len(kept) < 2
                             THEN suggest_checks_from_causes(causes)
                             ELSE kept), 6)

DigitVal(c) == IndexIn(c, "0123456789") - 1
IntStr(n) ==
    IF n < 10 THEN Char("0123456789", n + 1)
    ELSE Char("0123456789", (n \div 10) + 1) \o Char("0123456789", (n % 10) + 1)

\* re.match(r"^P03\d\d$", c_up)
IsMisfireCode(c_up) ==
    /\ Len(c_up) = 5
    /\ SubSeq(c_up, 1, 3) = "P03"
    /\ Char(c_up, 4) \in DigitChars
    /\ Char(c_up, 5) \in DigitChars

\* int(c_up[-2:]) % 100
CylNum(c_up) == (DigitVal(Char(c_up, 4)) * 10 + DigitVal(Char(c_up, 5))) % 100

\* not desc or re.match(r"(?i)^obd-ii code\b", desc)
desc_needs_backfill(desc) ==
    desc = "" \/ (StartsWith(Lower(desc), "obd-ii code") /\ WordBoundary(desc, 12))

backfill_desc(code, desc, causes) ==
    LET c_up == Strip(Upper(code))
    IN  IF ~desc_needs_backfill(desc) THEN desc
        ELSE IF c_up = "P0300" THEN "Random/multiple cylinder misfire detected"
        ELSE IF IsMisfireCode(c_up)
             THEN (IF SubSeq(c_up, 4, 5) # "00"
                   THEN "Cylinder " \o IntStr(CylNum(c_up)) \o " misfire detected"
                   ELSE "Engine misfire detected")
        ELSE IF c_up = "P0420" THEN "Catalyst system efficiency below threshold (Bank 1)"
        ELSE IF c_up = "P0720" THEN "Output speed sensor circuit malfunction"
        ELSE IF c_up = "P0600" THEN "Serial communication link malfunction"
        ELSE IF AnyIn(Lower(Join(" ", causes)),
                      {"communication", "can", "bus", "link", "harness", "connector",
                       "ecm", "pcm", "tcm"})
             THEN "Malfunction in the communication link between ECM and related control modules (wiring/connectors)."
        ELSE desc

\* variant: the cylinder is never named
CylNone(text, n) == text

\* f"{text} (cylinder {cyl_num})" if cyl_num else text
Cyl(text, n) == IF n # 0 THEN text \o " (cylinder " \o IntStr(n) \o ")" ELSE text

misfire_causes(n) ==
    <<Cyl("Ignition coil failure", n),
      Cyl("Spark plug fouled/worn", n),
      Cyl("Fuel injector issue", n),
      "Vacuum leak near intake manifold",
      Cyl("Low compression", n),
      Cyl("Wiring/connector issue at coil/injector", n)>>

misfire_checks(n) ==
    <<Cyl("Inspect/replace spark plug", n),
      Cyl("Swap ignition coil with another cylinder and re-scan", n),
      Cyl("Inspect coil/injector wiring and connectors", n),
      Cyl("Perform compression test", n),
      Cyl("Injector balance/leak test", n),
      "Check for vacuum leaks around intake hoses/gaskets">>

trs_causes ==
    <<"Transmission range sensor (TRS) faulty or misaligned",
      "Damaged or corroded TRS connector/wiring",
      "Selector linkage out of adjustment",
      "TCM input fault (less common)">>

trs_checks ==
    <<"Verify TRS alignment and selector linkage adjustment",
      "Inspect TRS wiring and connector for damage/corrosion",
      "Read PRNDL status with scan tool and compare to lever position",
      "Check continuity/voltage at TRS according to service manual">>

\* the two canonicalisation blocks, applied to one list
canonicalize(code, items, misfire, trs) ==
    LET c_up == Strip(Upper(code))
        a == IF IsMisfireCode(c_up) /\ Len(items) < 3
             THEN Take(dedupe_str_list(misfire), 6) ELSE items
    IN  IF c_up = "P0705" /\ Len(a) < 3 THEN Take(dedupe_str_list(trs), 6) ELSE a

sanitize_summary(code, summary) ==
    LET desc0  == sanitize_desc(summary.description)
        causes == sanitize_causes(code, summary.causes)
        desc   == backfill_desc(code, desc0, causes)
        checks == sanitize_checks(code, summary.checks, causes)
        n      == IF IsMisfireCode(Strip(Upper(code))) THEN CylNum(Strip(Upper(code))) ELSE 0
    IN  [description |-> desc,
         causes |-> canonicalize(code, causes, misfire_causes(n), trs_causes),
         checks |-> canonicalize(code, checks, misfire_checks(n), trs_checks)]

(***************************************************************************)
(* Values.  None is the empty sequence and a present value v is <<v>>      *)
(* where a function returns Optional[...]; a vehicle field that is None    *)
(* is the string NoneV.                                                    *)
(***************************************************************************)
NoneV == "<None>"
None == <<>>
Some(v) == <<v>>

\* (x or "")
OrEmpty(x) == IF x = NoneV THEN "" ELSE x

\* a vehicle argument: None, the empty dict {} or a dict with the four keys
VNone == [kind |-> "none", make |-> NoneV, model |-> NoneV, year |-> NoneV, engine |-> NoneV]
VEmpty == [kind |-> "empty", make |-> NoneV, model |-> NoneV, year |-> NoneV, engine |-> NoneV]
VAllNone == [kind |-> "dict", make |-> NoneV, model |-> NoneV, year |-> NoneV, engine |-> NoneV]
VHilux == [kind |-> "dict", make |-> "Toyota", model |-> " Hilux", year |-> NoneV, engine |-> NoneV]

\* truthiness of the vehicle argument: None and {} are falsy
Truthy(vehicle) == vehicle.kind = "dict"

\* vehicle or {}
OrEmptyDict(vehicle) == IF Truthy(vehicle) THEN vehicle ELSE VEmpty

\* v_norm: the four key fields, (vehicle.get(f) or "").strip().lower()
v_norm(vehicle) ==
    [make   |-> Lower(Strip(OrEmpty(vehicle.make))),
     model  |-> Lower(Strip(OrEmpty(vehicle.model))),
     year   |-> Lower(Strip(OrEmpty(vehicle.year))),
     engine |-> Lower(Strip(OrEmpty(vehicle.engine)))]

\* {"code": code.upper(), **v_norm}
vehicle_key(code, vehicle) ==
    LET vn == v_norm(vehicle)
    IN  [code |-> Upper(code), make |-> vn.make, model |-> vn.model,
         year |-> vn.year, engine |-> vn.engine]

(***************************************************************************)
(* The document store: a collection is a set of documents (records);       *)
(* find_one and update_one as the code uses them.                          *)
(***************************************************************************)
Matches(doc, query) == \A f \in DOMAIN query : doc[f] = query[f]

find_one(coll, query) ==
    IF \E d \in coll : Matches(d, query)
    THEN Some(CHOOSE d \in coll : Matches(d, query))
    ELSE None

SetFields(doc, setvals) ==
    [f \in (DOMAIN doc) \cup (DOMAIN setvals) |->
        IF f \in DOMAIN setvals THEN setvals[f] ELSE doc[f]]

\* variant: the updated document is added next to the one it matches
update_keeps_old(coll, query, setvals, upsert) ==
    IF \E d \in coll : Matches(d, query)
    THEN LET d == CHOOSE d \in coll : Matches(d, query)
         IN  coll \cup {SetFields(d, setvals)}
    ELSE IF upsert THEN coll \cup {SetFields(query, setvals)}
    ELSE coll

update_one(coll, query, setvals, upsert) ==
    IF \E d \in coll : Matches(d, query)
    THEN LET d == CHOOSE d \in coll : Matches(d, query)
         IN  (coll \ {d}) \cup {SetFields(d, setvals)}
    ELSE IF upsert THEN coll \cup {SetFields(query, setvals)}
    ELSE coll

(***************************************************************************)
(* Bounds and the inputs drawn by the environment.                         *)
(***************************************************************************)
MaxCalls == 2

Procs == {1, 2}

ReqCodes == {"p0301", "p0705", "P0171", "P0420"}
ReqVehicles == {VNone, VAllNone, VHilux}

\* the primary knowledge base the service starts with (obd_codes):
\* a curated record (tests/conftest.py), a placeholder record and a record without causes
KbSeed ==
    {[code |-> "P0705",
      description |-> "Transmission range sensor circuit malfunction",
      symptoms |-> "",
      common_causes |-> "Faulty range sensor, Misadjusted neutral safety switch, Wiring damage near gearbox",
      generic_fixes |-> "Inspect range sensor, Check wiring continuity, Verify gear selector alignment"],
     [code |-> "P0171",
      description |-> "Generic OBD-II DTC.",
      symptoms |-> "",
      common_causes |-> "Vacuum leak at intake, wiring damage near gearbox",
      generic_fixes |-> "Check intake leaks, check wiring continuity, Inspect MAF sensor, Test fuel pressure, Scan fuel trims"],
     [code |-> "P0420",
      description |-> "Catalyst system efficiency below threshold",
      symptoms |-> "Check engine light",
      common_causes |-> "",
      generic_fixes |-> ""]}

\* vehicle_overrides: curated per-vehicle knowledge
OverrideSeed ==
    {[code |-> "P0705", make |-> "toyota", model |-> "hilux", year |-> "", engine |-> "",
      known_issues |-> <<"Range sensor faulty on this model">>,
      priority_checks |-> <<"Inspect range sensor connector first">>]}

\* what _web_search_for_code can hand back: the trusted sources of a search
SearchHit ==
    <<[url |-> "https://www.obd-codes.com/p0705",
       title |-> "P0705",
       snippet |-> "Range sensor fault, my car stalls; wiring damage: P0301 also set"]>>

SearchOutcomes == {<<>>, SearchHit}

EmptySummary == [description |-> "", causes |-> <<>>, checks |-> <<>>]

\* what the text-generation provider can answer
AiGood ==
    [description |-> "Range sensor circuit fault on my car, see P0301 - reddit",
     causes |-> <<"Faulty range sensor", "P0705 with P0301 wiring fault", "Wiring damage near gearbox">>,
     checks |-> <<"Check: Inspect range sensor", "Check wiring continuity", "Verify selector alignment">>]

AiNoCauses ==
    [description |-> "Range sensor circuit fault", causes |-> <<" ">>, checks |-> <<"Inspect range sensor">>]

\* every cause is forum talk
AiForumCauses ==
    [description |-> "Fuel trim fault", causes |-> <<"my car stalls on hills">>,
     checks |-> <<"Inspect intake hoses for cracks">>]

\* a parsed JSON object, text that is no JSON, or a raising/timed-out call
AiResponses ==
    {[kind |-> "json", data |-> AiGood],
     [kind |-> "json", data |-> AiForumCauses],
     [kind |-> "json", data |-> AiNoCauses],
     [kind |-> "unparseable", data |-> EmptySummary],
     [kind |-> "raise", data |-> EmptySummary]}

(***************************************************************************)
(* search.py: _summarize_with_gemini and the heuristic fallback.           *)
(***************************************************************************)
\* variant: a parsed object is taken whatever fields it lacks
accept_partial(resp) ==
    IF resp.kind # "json" THEN None
    ELSE Some([description |-> Strip(resp.data.description),
               causes |-> Take(StripNonEmpty(resp.data.causes), 6),
               checks |-> Take(StripNonEmpty(resp.data.checks), 6)])

\* the parse of the response (json.loads and the required-field test);
\* a raise inside the try block gives None as well
summarize_with_gemini(resp) ==
    IF resp.kind # "json" THEN None
    ELSE LET desc   == Strip(resp.data.description)
             causes == StripNonEmpty(resp.data.causes)
             checks == StripNonEmpty(resp.data.checks)
         IN  IF desc = "" \/ causes = <<>> \/ checks = <<>> THEN None
             ELSE Some([description |-> desc, causes |-> Take(causes, 6),
                        checks |-> Take(checks, 6)])

bad_subs ==
    {"what is the meaning", "asked", "stack overflow", "stackexchange", "reddit",
     "quora", "how do i fix", "may ", "nov ", "dec ", "jan ", "feb ", "mar ", "apr "}

RECURSIVE Snippets(_)
Snippets(results) ==
    IF results = <<>> THEN <<>> ELSE <<Head(results).snippet>> \o Snippets(Tail(results))

RECURSIVE Urls(_)
Urls(results) ==
    IF results = <<>> THEN <<>> ELSE <<Head(results).url>> \o Urls(Tail(results))

RECURSIVE heuristic_clean(_, _)
heuristic_clean(tokens, seen_lc) ==
    IF tokens = <<>> THEN <<>>
    ELSE LET t == Head(tokens)
             tl == Lower(t)
         IN  IF AnyIn(tl, bad_subs) \/ Len(t) > 120 \/ tl \in seen_lc
             THEN heuristic_clean(Tail(tokens), seen_lc)
             ELSE <<t>> \o heuristic_clean(Tail(tokens), seen_lc \cup {tl})

RECURSIVE PrefixAll(_, _)
PrefixAll(prefix, items) ==
    IF items = <<>> THEN <<>> ELSE <<prefix \o Head(items)>> \o PrefixAll(prefix, Tail(items))

\* the split pattern ,|;|\n|-|:\s* (the two non-ASCII bullets never occur here)
heuristic_summary(code, results) ==
    LET text    == Join("\n", Snippets(results))
        tokens  == StripNonEmpty(SplitOn(text, {",", ";", "\n", "-", ":"}))
        cleaned == heuristic_clean(tokens, {})
        causes  == IF cleaned = <<>>
                   THEN <<"Communication bus fault", "Harness/connector issue", "Control module fault">>
                   ELSE Take(cleaned, 5)
    IN  [description |-> "OBD-II code " \o code,
         causes |-> causes,
         checks |-> Take(PrefixAll("Check: ", causes), 5)]

(***************************************************************************)
(* State.                                                                  *)
(***************************************************************************)
VARIABLES
    cfg,                 \* the environment variables the code reads
    obd_codes,           \* primary knowledge base
    obd_summaries,       \* promoted per-vehicle summaries
    external_obd_cache,  \* external cache
    vehicle_overrides,   \* vehicle overrides
    call,                \* per request: position and locals of the running call
    ncalls,              \* calls started so far
    san,                 \* a summary under _sanitize_summary, applied once and twice
    ws,                  \* a running _web_search_for_code call
    pm,                  \* a parse_message / validate_obd_code call
    hook,                \* the twilio_webhook handler: its environment, the request, its position
    message_logs         \* the message log, oldest entry first

vars == <<cfg, obd_codes, obd_summaries, external_obd_cache, vehicle_overrides, call, ncalls, san, ws,
         pm, hook, message_logs>>

stores == <<obd_codes, obd_summaries, external_obd_cache, vehicle_overrides>>

\* INTERNET_FALLBACK_ENABLED; AI_ENRICH_ENABLED with AI_PROVIDER=gemini;
\* EXTERNAL_SAVE_PER_VEHICLE (unset, "true", "false"); EXTERNAL_ENRICH_ALWAYS.
\* Without internet the AI switch is never read.
Configs ==
    {c \in [internet : BOOLEAN, ai_gemini : BOOLEAN,
            save_env : {"unset", "true", "false"}, always_enrich : BOOLEAN] :
        ~c.internet => ~c.ai_gemini}

EmptyRecord ==
    [code |-> "", description |-> "", symptoms |-> "", common_causes |-> "", generic_fixes |-> ""]

\* locals of a call of get_obd_info, with those of the get_external_obd call
\* it makes; from status on: what the call did, for the properties
IdleCall ==
    [pc |-> "idle", code |-> "", vehicle |-> VNone,
     ecode |-> "", evehicle |-> VEmpty, via |-> "none",
     pv |-> None, base |-> EmptyRecord, is_generic |-> FALSE,
     cached |-> None, results |-> <<>>, path |-> "none", summary_from_ai |-> FALSE,
     clean |-> EmptySummary,
     status |-> "none", ret |-> None, tier |-> "none",
     ext_status |-> "none", ext_ret |-> None, ext_fault |-> "none",
     had_pv |-> FALSE, had_doc |-> FALSE, had_override |-> FALSE, had_cache |-> FALSE,
     before |-> {}, read_pv |-> FALSE, read_kb |-> FALSE, ai_resp |-> None, wfail |-> {},
     n_cread |-> 0, n_search |-> 0, n_ai |-> 0, n_write |-> 0, n_repair |-> 0]

\* no summary under the sanitizer
SanIdle ==
    [pc |-> "off", code |-> "", input |-> EmptySummary, out |-> EmptySummary,
     out2 |-> EmptySummary]

\* no search under way
WsIdle ==
    [pc |-> "off", code |-> "", vehicle |-> VEmpty, allow_untrusted |-> FALSE,
     idx |-> 0, d |-> 0, agg |-> <<>>, queries |-> <<>>, ret |-> <<>>]

\* every switch unset
PmIdle == [pc |-> "off", text |-> "", parsed |-> <<>>, valid |-> <<>>]

\* the environment twilio_webhook reads, at its defaults: TWILIO_VALIDATE_SIGNATURE,
\* USAGE_LIMIT_PER_NUMBER, ALLOWED_NUMBERS, TWILIO_SEND_REPLY
DefaultHookEnv == [validate |-> TRUE, limit |-> 0, allowed |-> "", send_reply |-> FALSE]

\* no request under way; from logs_before on: what the state was when the request
\* arrived, for the properties
HookIdle ==
    [env |-> DefaultHookEnv, now |-> 0, nreq |-> 0,
     pc |-> "idle", from |-> "", text |-> "", sig_ok |-> TRUE,
     code |-> NoneV, vehicle |-> VNone, kind |-> "none", reply |-> "", response |-> "none",
     logs_before |-> <<>>, stores_before |-> <<>>, ncalls_before |-> 0]

DefaultConfig ==
    [internet |-> FALSE, ai_gemini |-> FALSE, save_env |-> "unset", always_enrich |-> FALSE]

Init ==
    /\ cfg \in Configs
    /\ obd_codes = KbSeed
    /\ obd_summaries = {}
    /\ external_obd_cache = {}
    /\ vehicle_overrides = OverrideSeed
    /\ call = [p \in Procs |-> IdleCall]
    /\ ncalls = 0
    /\ san = SanIdle
    /\ ws = WsIdle
    /\ pm = PmIdle
    /\ hook = HookIdle
    /\ message_logs = <<>>

(***************************************************************************)
(* obd.py get_obd_info: what it returns.                                   *)
(***************************************************************************)
Summary(description, causes, checks) ==
    [description |-> description, causes |-> causes, checks |-> checks]

\* [c.strip() for c in s.split(",") if c.strip()]
split_causes(s) == StripNonEmpty(SplitOn(s, {","}))

\* [i.strip() for i in re.split(r"[,\n;]+", s) if i and i.strip()]
split_checks(s) == StripNonEmpty(SplitOn(s, {",", "\n", ";"}))

\* lines 61-67: the record built from a promoted summary
summary_record(code, cleaned) ==
    [code |-> Upper(code),
     description |-> cleaned.description,
     symptoms |-> "",
     common_causes |-> Join(", ", cleaned.causes),
     generic_fixes |-> Join(", ", cleaned.checks)]

\* lines 76-86: the primary record sanitized on read
clean_primary(code, doc) ==
    sanitize_summary(code, Summary(doc.description,
                                   split_causes(doc.common_causes),
                                   split_checks(doc.generic_fixes)))

\* lines 88-92: persist if changed
primary_changed(doc, cleaned) ==
    \/ cleaned.description # doc.description
    \/ Join(", ", cleaned.causes) # doc.common_causes
    \/ Join(", ", cleaned.checks) # doc.generic_fixes

\* lines 106-112
primary_base(doc, cleaned) ==
    [code |-> doc.code,
     description |-> cleaned.description,
     symptoms |-> doc.symptoms,
     common_causes |-> Join(", ", cleaned.causes),
     generic_fixes |-> Join(", ", cleaned.checks)]

\* variant: every description counts as generic
always_generic(base) == TRUE

\* lines 124-128: is_generic, and the decision to enrich
base_is_generic(base) ==
    LET desc_low == Lower(Strip(base.description))
    IN  desc_low = "" \/ Contains(desc_low, "generic obd-ii dtc")

\* variant: every primary record is enriched
enrich_any(base) == TRUE

should_enrich(base) ==
    \/ base_is_generic(base)
    \/ Strip(base.common_causes) = ""
    \/ cfg.always_enrich

\* variant: duplicates are told by exact equality
RECURSIVE merge_exact(_, _)
merge_exact(items, seen) ==
    IF items = <<>> THEN <<>>
    ELSE IF Head(items) \in seen THEN merge_exact(Tail(items), seen)
    ELSE <<Head(items)>> \o merge_exact(Tail(items), seen \cup {Head(items)})

\* lines 156-163: merge/dedupe of two lists, base first
RECURSIVE merge_dedupe(_, _)
merge_dedupe(items, seen) ==
    IF items = <<>> THEN <<>>
    ELSE LET key == Lower(Head(items))
         IN  IF key \in seen THEN merge_dedupe(Tail(items), seen)
             ELSE <<Head(items)>> \o merge_dedupe(Tail(items), seen \cup {key})

\* lines 138-174: the external summary folded into base
merge_external(base, is_generic, external) ==
    LET ext_desc   == Strip(external.description)
        ext_causes == StripNonEmpty(external.causes)
        ext_checks == StripNonEmpty(external.checks)
        desc   == IF ext_desc # "" /\ is_generic THEN ext_desc ELSE base.description
        causes == IF ext_causes = <<>> THEN base.common_causes
                  ELSE IF cfg.always_enrich THEN Join(", ", ext_causes)
                  ELSE Join(", ", merge_dedupe(split_causes(base.common_causes) \o ext_causes, {}))
        checks == IF ext_checks = <<>> THEN base.generic_fixes
                  ELSE IF cfg.always_enrich THEN Join(", ", ext_checks)
                  ELSE Join(", ", merge_dedupe(split_checks(base.generic_fixes) \o ext_checks, {}))
    IN  [code |-> base.code, description |-> desc, symptoms |-> base.symptoms,
         common_causes |-> causes, generic_fixes |-> checks]

\* lines 190-200: the record built from the external summary alone
external_record(code, external) ==
    LET ext_desc   == Strip(external.description)
        ext_causes == StripNonEmpty(external.causes)
        ext_checks == StripNonEmpty(external.checks)
    IN  [code |-> Upper(code),
         description |-> IF ext_desc # "" THEN ext_desc ELSE "OBD-II code " \o Upper(code),
         symptoms |-> "",
         common_causes |-> Join(", ", ext_causes),
         generic_fixes |-> Join(", ", ext_checks)]

\* variant: the code is echoed as the caller wrote it
fallback_as_given(code) ==
    [code |-> code,
     description |-> "Generic OBD-II DTC.",
     symptoms |-> "",
     common_causes |-> "Vacuum leak, faulty sensor, wiring issue",
     generic_fixes |-> "Inspect vacuum lines, check connectors, verify sensor readings"]

\* lines 203-209
generic_fallback(code) ==
    [code |-> Upper(code),
     description |-> "Generic OBD-II DTC.",
     symptoms |-> "",
     common_causes |-> "Vacuum leak, faulty sensor, wiring issue",
     generic_fixes |-> "Inspect vacuum lines, check connectors, verify sensor readings"]

\* the call returns rec to its caller
Returned(c, rec, tier) ==
    [c EXCEPT !.pc = "done", !.status = "returned", !.ret = Some(rec), !.tier = tier]

\* an exception leaves the call
Raised(c) == [c EXCEPT !.pc = "done", !.status = "raised"]

(***************************************************************************)
(* webhook.py: the reply text built from the record get_obd_info returned. *)
(***************************************************************************)
\* REPLY_MAX_CAUSES and REPLY_MAX_CHECKS, at their defaults
max_causes == 3
max_checks == 3

\* ai/enrich.py enrich_causes: the record's causes, deduplicated, at most 5
enrich_causes(base_info) ==
    LET ranked == merge_dedupe(split_causes(base_info.common_causes), {})
    IN  Take(IF ranked = <<>>
             THEN <<"Vacuum leak", "Faulty sensor", "Wiring/connector issue",
                    "Air/fuel imbalance", "Exhaust leak">>
             ELSE ranked, 5)

\* lines 70-72: "1. cause (very common)", "2. cause", ...
RECURSIVE cause_lines(_, _)
cause_lines(causes, idx) ==
    IF causes = <<>> THEN <<>>
    ELSE <<IntStr(idx) \o ". " \o Head(causes)
            \o (IF idx = 1 THEN " (very common)" ELSE "")>>
         \o cause_lines(Tail(causes), idx + 1)

\* variant: the reply opens with the meaning and never names the code
reply_without_code(code, base_info, causes_ranked) ==
    Join("\n", <<"Meaning:", IF base_info.description # "" THEN base_info.description
                             ELSE "Unknown description">>)

\* _format_reply(code, base_info, causes_ranked); causes_ranked is None or a
\* list.  The pictographs before "Code:", each check and the closing line
\* are written as "*", "-" and "i".
format_reply(code, base_info, causes_ranked) ==
    LET meaning == IF base_info.description # "" THEN base_info.description
                   ELSE "Unknown description"
        causes == IF causes_ranked # None /\ causes_ranked[1] # <<>>
                  THEN StripNonEmpty(causes_ranked[1])
                  ELSE split_causes(base_info.common_causes)
        fixes == split_checks(base_info.generic_fixes)
        fix_items == IF fixes = <<>>
                     THEN <<"Inspect intake hoses for cracks", "Clean MAF sensor",
                            "Check fuel pressure">>
                     ELSE fixes
    IN  Join("\n",
             <<"* Code: " \o code, "", "Meaning:", meaning>>
             \o (IF causes # <<>>
                 THEN <<"", "Likely causes:">> \o cause_lines(Take(causes, max_causes), 1)
                 ELSE <<>>)
             \o <<"", "Recommended checks:">>
             \o PrefixAll("- ", Take(fix_items, max_checks))
             \o <<"", "i Generic guidance. Confirm with physical inspection.">>)

\* twilio_webhook lines 182-190: the reply for the record rec of code
webhook_reply(code, rec) ==
    format_reply(code, rec, IF cfg.ai_gemini THEN Some(enrich_causes(rec)) ELSE None)

(***************************************************************************)
(* get_external_obd ends: its caller goes on without another await.        *)
(***************************************************************************)
\* get_external_obd returns val (None or a summary): obd.py lines 138-177
\* after a primary record, lines 190-209 without one
ExtReturn(c, val) ==
    LET d == [c EXCEPT !.ext_status = "returned", !.ext_ret = val]
    IN  IF c.via = "kb"
        THEN (IF val = None THEN Returned(d, c.base, "primary")
              ELSE Returned(d, merge_external(c.base, c.is_generic, val[1]), "external"))
        ELSE (IF val = None THEN Returned(d, generic_fallback(c.code), "fallback")
              ELSE Returned(d, external_record(c.code, val[1]), "external"))

\* variant: the exception of get_external_obd leaves get_obd_info
ExtRaise_propagates(c, what) == Raised([c EXCEPT !.ext_status = "raised", !.ext_fault = what])

\* get_external_obd raises: get_obd_info catches it (lines 175, 201)
ExtRaise(c, what) ==
    LET d == [c EXCEPT !.ext_status = "raised", !.ext_fault = what]
    IN  IF c.via = "kb" THEN Returned(d, c.base, "primary")
        ELSE Returned(d, generic_fallback(c.code), "fallback")

\* variant: the enrichment switch is not consulted
EnterExt_ungated(c, via) ==
    [c EXCEPT !.via = via, !.ecode = Upper(c.code), !.evehicle = OrEmptyDict(c.vehicle),
              !.ext_status = "running", !.pc = "ext_cache"]

\* get_obd_info calls get_external_obd(db, code.upper(), vehicle or {});
\* search.py lines 425-432: its entry up to the first await
EnterExt(c, via) ==
    LET d == [c EXCEPT !.via = via, !.ecode = Upper(c.code),
                       !.evehicle = OrEmptyDict(c.vehicle), !.ext_status = "running"]
    IN  IF ~cfg.internet THEN ExtReturn(d, None)
        ELSE [d EXCEPT !.pc = "ext_cache"]

\* lines 121-133: after the primary record is read (and repaired)
AfterPrimary(c) ==
    IF should_enrich(c.base)
    THEN EnterExt([c EXCEPT !.is_generic = base_is_generic(c.base)], "kb")
    ELSE Returned(c, c.base, "primary")

(***************************************************************************)
(* Actions: one per stretch of code between two awaits.  A value computed  *)
(* once by the code is bound once, by \E over a singleton.                 *)
(***************************************************************************)
SetCall(p, c) == call' = [call EXCEPT ![p] = c]

\* variant: the exception of a store write leaves the call
write_error_propagates(ok, what, next) ==
    IF ok THEN next ELSE Raised([next EXCEPT !.wfail = @ \cup {what}])

\* "except Exception: pass" around every update_one: the call goes on to next
\* whether the write went through or raised
after_write(ok, what, next) ==
    IF ok THEN next ELSE [next EXCEPT !.wfail = @ \cup {what}]

\* line 71 on: the primary record is read; ok = FALSE is a raising find_one,
\* which no handler catches
PrimaryRead(p, c, ok) ==
    IF ~ok THEN SetCall(p, Raised(c))
    ELSE \E doc \in {find_one(obd_codes, [code |-> Upper(c.code)])} :
            IF doc = None
            THEN SetCall(p, EnterExt([c EXCEPT !.read_kb = TRUE], "nf"))
            ELSE \E cleaned \in {clean_primary(c.code, doc[1])} :
                    LET d == [c EXCEPT !.read_kb = TRUE,
                                       !.base = primary_base(doc[1], cleaned)]
                    IN  IF primary_changed(doc[1], cleaned)
                        THEN SetCall(p, [d EXCEPT !.pc = "kb_write"])
                        ELSE SetCall(p, AfterPrimary(d))

\* a caller starts get_obd_info(db, code, vehicle)
BeginCall(p, codes, vehicles, limit) ==
    /\ call[p].pc \in {"idle", "done"}
    /\ ncalls < limit
    /\ \E code \in codes, vehicle \in vehicles :
          SetCall(p, [IdleCall EXCEPT
                        !.pc = "enter", !.code = code, !.vehicle = vehicle,
                        !.had_pv = find_one(obd_summaries, vehicle_key(code, vehicle)) # None,
                        !.had_doc = find_one(obd_codes, [code |-> Upper(code)]) # None,
                        !.had_override =
                            find_one(vehicle_overrides, vehicle_key(code, vehicle)) # None,
                        !.had_cache =
                            find_one(external_obd_cache, vehicle_key(code, vehicle)) # None,
                        !.before = IF call[p].pc = "done"
                                   THEN call[p].before \cup {Upper(call[p].code)}
                                   ELSE {}])
    /\ ncalls' = ncalls + 1

\* a call started by a caller other than the webhook
StartWith(p, codes, vehicles, limit) ==
    /\ BeginCall(p, codes, vehicles, limit)
    /\ UNCHANGED <<pm, ws, san, cfg, hook, message_logs, stores>>

Start(p) == StartWith(p, ReqCodes, ReqVehicles, MaxCalls)

\* obd.py lines 13-71: the promoted summary is read when the vehicle is truthy
\* and EXTERNAL_SAVE_PER_VEHICLE (default "true") is on; a raise there is
\* swallowed (line 68).  Otherwise the first await is the primary read.
Enter(p) ==
    LET c == call[p]
    IN  /\ c.pc = "enter"
        /\ \E ok \in BOOLEAN :
              IF Truthy(c.vehicle) /\ cfg.save_env \in {"unset", "true"}
              THEN IF ~ok THEN SetCall(p, [c EXCEPT !.pc = "kb_read", !.read_pv = TRUE])
                   ELSE \E pv \in {find_one(obd_summaries, vehicle_key(c.code, c.vehicle))} :
                           IF pv = None THEN SetCall(p, [c EXCEPT !.pc = "kb_read", !.read_pv = TRUE])
                           ELSE \E cleaned \in {sanitize_summary(c.code,
                                                   Summary(pv[1].description, pv[1].causes, pv[1].checks))} :
                                   LET d == [c EXCEPT !.pv = pv, !.clean = cleaned, !.read_pv = TRUE]
                                   IN  IF \/ cleaned.description # pv[1].description
                                          \/ cleaned.causes # pv[1].causes
                                          \/ cleaned.checks # pv[1].checks
                                       THEN SetCall(p, [d EXCEPT !.pc = "pv_write"])
                                       ELSE SetCall(p, Returned(d, summary_record(c.code, cleaned), "promoted"))
              ELSE PrimaryRead(p, c, ok)
        /\ UNCHANGED <<pm, ws, san, cfg, hook, message_logs, stores, ncalls>>

\* lines 42-67: the sanitized promoted summary is written back, then returned
PromotedWrite(p) ==
    LET c == call[p]
    IN  /\ c.pc = "pv_write"
        /\ \E ok \in BOOLEAN :
              /\ obd_summaries' =
                    IF ok THEN update_one(obd_summaries, vehicle_key(c.code, c.vehicle),
                                          [description |-> c.clean.description,
                                           causes |-> c.clean.causes,
                                           checks |-> c.clean.checks], FALSE)
                    ELSE obd_summaries
              /\ SetCall(p, after_write(ok, "promoted",
                                Returned([c EXCEPT !.n_repair = @ + (IF ok THEN 1 ELSE 0)],
                                         summary_record(c.code, c.clean), "promoted")))
        /\ UNCHANGED <<pm, ws, san, cfg, hook, message_logs, obd_codes, external_obd_cache, vehicle_overrides, ncalls>>

\* line 71, reached after the promoted-summary tier gave nothing
KbRead(p) ==
    LET c == call[p]
    IN  /\ c.pc = "kb_read"
        /\ \E ok \in BOOLEAN : PrimaryRead(p, c, ok)
        /\ UNCHANGED <<pm, ws, san, cfg, hook, message_logs, stores, ncalls>>

\* lines 93-105: the sanitized primary record is written back
KbWrite(p) ==
    LET c == call[p]
    IN  /\ c.pc = "kb_write"
        /\ \E ok \in BOOLEAN :
              /\ obd_codes' =
                    IF ok THEN update_one(obd_codes, [code |-> Upper(c.code)],
                                          [description |-> c.base.description,
                                           common_causes |-> c.base.common_causes,
                                           generic_fixes |-> c.base.generic_fixes], FALSE)
                    ELSE obd_codes
              /\ SetCall(p, after_write(ok, "primary",
                                AfterPrimary([c EXCEPT !.n_repair = @ + (IF ok THEN 1 ELSE 0)])))
        /\ UNCHANGED <<pm, ws, san, cfg, hook, message_logs, obd_summaries, external_obd_cache, vehicle_overrides, ncalls>>

\* variant: the cached entry is ignored
cache_miss(cached) == FALSE

\* search.py line 442: if cached
cache_hit(cached) == cached # None

\* search.py lines 434-453: the cache check
ExtCache(p) ==
    LET c == [call[p] EXCEPT !.n_cread = @ + 1]
    IN  /\ c.pc = "ext_cache"
        /\ \E ok \in BOOLEAN :
              IF ~ok THEN SetCall(p, ExtRaise(c, "cache"))
              ELSE \E cached \in {find_one(external_obd_cache, vehicle_key(c.ecode, c.evehicle))} :
                      IF cache_hit(cached)
                      THEN SetCall(p, ExtReturn([c EXCEPT !.cached = cached],
                                      Some([description |-> cached[1].description,
                                            causes |-> cached[1].causes,
                                            checks |-> cached[1].checks,
                                            sources |-> cached[1].sources,
                                            from_ai |-> TRUE])))
                      ELSE SetCall(p, [c EXCEPT !.pc = "ext_search"])
        /\ UNCHANGED <<pm, ws, san, cfg, hook, message_logs, stores, ncalls>>

\* lines 455-462: _web_search_for_code returned results; without results
\* get_external_obd returns None at once
\* variant: an empty search is tried a second time
search_retried_once(p, c, results) ==
    LET d == [c EXCEPT !.n_search = @ + 1, !.results = results]
    IN  IF results = <<>>
        THEN (IF c.n_search = 0 THEN SetCall(p, [d EXCEPT !.pc = "ext_search"])
              ELSE SetCall(p, ExtReturn(d, None)))
        ELSE SetCall(p, [d EXCEPT !.pc = "ext_summarize"])

\* search.py lines 455-466: what get_external_obd does with the search results
Searched(p, c, results) ==
    LET d == [c EXCEPT !.n_search = @ + 1, !.results = results]
    IN  IF results = <<>> THEN SetCall(p, ExtReturn(d, None))
        ELSE SetCall(p, [d EXCEPT !.pc = "ext_summarize"])

\* lines 455-462: the search; ok = FALSE is a raising or timed-out provider call
ExtSearch(p) ==
    LET c == call[p]
    IN  /\ c.pc = "ext_search"
        /\ \/ SetCall(p, ExtRaise([c EXCEPT !.n_search = @ + 1], "search"))
           \/ \E results \in SearchOutcomes : Searched(p, c, results)
        /\ UNCHANGED <<pm, ws, san, cfg, hook, message_logs, stores, ncalls>>

\* variant: every summary is persisted
persist_always(from_ai) == TRUE

\* lines 519 and 555: if summary_from_ai
persist_summary(from_ai) == from_ai

\* lines 468-516, after summary and summary_from_ai are known: sanitize;
\* lines 519, 555: only an AI summary goes on to the writes
Summarized(p, c, summary, from_ai) ==
    \E clean \in {sanitize_summary(c.ecode, summary)} :
       LET d == [c EXCEPT !.clean = clean, !.summary_from_ai = from_ai]
       IN  IF persist_summary(from_ai)
           THEN SetCall(p, [d EXCEPT !.pc = "ext_wcache"])
           ELSE SetCall(p, ExtReturn(d, Some(clean @@ [from_ai |-> FALSE])))

\* lines 468-516: summarize by the AI provider when configured, by the
\* heuristic when it is not or gave None
ExtSummarize(p) ==
    LET c == call[p]
    IN  /\ c.pc = "ext_summarize"
        /\ IF cfg.ai_gemini
           THEN \E resp \in AiResponses :
                   \E ai \in {summarize_with_gemini(resp)} :
                      LET d == [c EXCEPT !.n_ai = @ + 1, !.ai_resp = Some(resp),
                                         !.ext_fault = IF resp.kind = "raise" THEN "ai" ELSE @,
                                         !.path = IF ai # None THEN "ai" ELSE "heuristic"]
                      IN  IF ai # None THEN Summarized(p, d, ai[1], TRUE)
                          ELSE Summarized(p, d, heuristic_summary(c.ecode, c.results), FALSE)
           ELSE Summarized(p, [c EXCEPT !.path = "heuristic"],
                           heuristic_summary(c.ecode, c.results), FALSE)
        /\ UNCHANGED <<pm, ws, san, cfg, hook, message_logs, stores, ncalls>>

\* variant: the summary is promoted into the primary record of the code
promote_overwrites(codes, code, clean) ==
    update_one(codes, [code |-> Upper(code)],
               [description |-> clean.description,
                common_causes |-> Join(", ", clean.causes),
                generic_fixes |-> Join(", ", clean.checks)], FALSE)

\* search.py lines 546-552: EXTERNAL_PROMOTE_TO_PRIMARY is read and a line is
\* printed; obd_codes is not written
promote_to_primary(codes, code, clean) == codes

\* lines 519-552: the cache write (upsert), and the promotion that is skipped
ExtWriteCache(p) ==
    LET c == call[p]
    IN  /\ c.pc = "ext_wcache"
        /\ \E ok \in BOOLEAN :
              /\ external_obd_cache' =
                    IF ok THEN update_one(external_obd_cache, vehicle_key(c.ecode, c.evehicle),
                                          [description |-> c.clean.description,
                                           causes |-> c.clean.causes,
                                           checks |-> c.clean.checks,
                                           sources |-> Urls(c.results),
                                           origin |-> c.path, enriched |-> c.clean], TRUE)
                    ELSE external_obd_cache
              /\ LET d == [c EXCEPT !.n_write = @ + (IF ok THEN 1 ELSE 0)]
                 IN  SetCall(p, after_write(ok, "cache",
                                IF cfg.save_env = "true"
                                THEN [d EXCEPT !.pc = "ext_wsummary"]
                                ELSE ExtReturn(d, Some(d.clean @@ [from_ai |-> TRUE]))))
        /\ obd_codes' = promote_to_primary(obd_codes, c.ecode, c.clean)
        /\ UNCHANGED <<pm, ws, san, cfg, hook, message_logs, obd_summaries, vehicle_overrides, ncalls>>

\* lines 555-585: the per-vehicle summary write (upsert), when
\* EXTERNAL_SAVE_PER_VEHICLE (default "false") is "true"
ExtWriteSummary(p) ==
    LET c == call[p]
    IN  /\ c.pc = "ext_wsummary"
        /\ \E ok \in BOOLEAN :
              /\ obd_summaries' =
                    IF ok THEN update_one(obd_summaries, vehicle_key(c.ecode, c.evehicle),
                                          [description |-> c.clean.description,
                                           causes |-> c.clean.causes,
                                           checks |-> c.clean.checks,
                                           sources |-> Urls(c.results),
                                           origin |-> c.path, enriched |-> c.clean], TRUE)
                    ELSE obd_summaries
              /\ SetCall(p, after_write(ok, "summary",
                                ExtReturn([c EXCEPT !.n_write = @ + (IF ok THEN 1 ELSE 0)],
                                          Some(c.clean @@ [from_ai |-> TRUE]))))
        /\ UNCHANGED <<pm, ws, san, cfg, hook, message_logs, obd_codes, external_obd_cache, vehicle_overrides, ncalls>>

Step(p) ==
    \/ Start(p)
    \/ Enter(p)
    \/ PromotedWrite(p)
    \/ KbRead(p)
    \/ KbWrite(p)
    \/ ExtCache(p)
    \/ ExtSearch(p)
    \/ ExtSummarize(p)
    \/ ExtWriteCache(p)
    \/ ExtWriteSummary(p)

\* one request at a time
Next == Step(1)

Spec == Init /\ [][Next]_vars

(***************************************************************************)
(* Concurrent requests: two callers resolve the same (code, vehicle) key,  *)
(* their steps interleaved at the awaits.  Enrichment and both writes are  *)
(* switched on.                                                            *)
(***************************************************************************)
ConcCalls == 3
ConcCodes == {"p0301"}
ConcVehicles == {VNone, VAllNone}

ConcInit ==
    /\ cfg = [internet |-> TRUE, ai_gemini |-> TRUE, save_env |-> "true", always_enrich |-> FALSE]
    /\ obd_codes = KbSeed
    /\ obd_summaries = {}
    /\ external_obd_cache = {}
    /\ vehicle_overrides = OverrideSeed
    /\ call = [p \in Procs |-> IdleCall]
    /\ ncalls = 0
    /\ san = SanIdle
    /\ ws = WsIdle
    /\ pm = PmIdle
    /\ hook = HookIdle
    /\ message_logs = <<>>

ConcStart(p) == StartWith(p, ConcCodes, ConcVehicles, ConcCalls)

ConcStep(p) ==
    \/ ConcStart(p)
    \/ Enter(p)
    \/ PromotedWrite(p)
    \/ KbRead(p)
    \/ ExtCache(p)
    \/ ExtSearch(p)
    \/ ExtSummarize(p)
    \/ ExtWriteCache(p)
    \/ ExtWriteSummary(p)

ConcNext == \E p \in Procs : ConcStep(p)

ConcSpec == ConcInit /\ [][ConcNext]_vars

(***************************************************************************)
(* _sanitize_summary on its own: a summary drawn from small pools is       *)
(* sanitized, and its result sanitized again.                              *)
(***************************************************************************)
MaxItems == 2
MaxChecks == 3

SanCodes == {"P0301", "P0300", "P0705", "P0171"}

SanDescs == {"", "Range sensor fault - reddit", "Misfire reddit thread what is the meaning"}

SanCauses == {"Faulty range sensor", "P0171 with P0301 wiring fault", "my car stalls"}

SanChecks == {"Check: Check: wiring continuity", "Inspect range sensor", "Test fuel pressure at rail"}

SeqsUpTo(S, n) == UNION {[1..k -> S] : k \in 0..n}

SanInit ==
    /\ \E code \in SanCodes, description \in SanDescs,
          causes \in SeqsUpTo(SanCauses, MaxItems), checks \in SeqsUpTo(SanChecks, MaxChecks) :
          san = [SanIdle EXCEPT !.pc = "in", !.code = code,
                                !.input = Summary(description, causes, checks)]
    /\ cfg = DefaultConfig
    /\ obd_codes = KbSeed
    /\ obd_summaries = {}
    /\ external_obd_cache = {}
    /\ vehicle_overrides = OverrideSeed
    /\ call = [p \in Procs |-> IdleCall]
    /\ ncalls = 0
    /\ ws = WsIdle
    /\ pm = PmIdle
    /\ hook = HookIdle
    /\ message_logs = <<>>

\* cleaned = _sanitize_summary(code, summary)
SanitizeOnce ==
    /\ san.pc = "in"
    /\ \E out \in {sanitize_summary(san.code, san.input)} :
          san' = [san EXCEPT !.pc = "once", !.out = out]
    /\ UNCHANGED <<pm, ws, cfg, hook, message_logs, stores, call, ncalls>>

\* _sanitize_summary(code, cleaned): what a read of a stored summary does
SanitizeAgain ==
    /\ san.pc = "once"
    /\ \E out2 \in {sanitize_summary(san.code, san.out)} :
          san' = [san EXCEPT !.pc = "twice", !.out2 = out2]
    /\ UNCHANGED <<pm, ws, cfg, hook, message_logs, stores, call, ncalls>>

SanNext == SanitizeOnce \/ SanitizeAgain

SanSpec == SanInit /\ [][SanNext]_vars

(***************************************************************************)
(* Properties.  Done(p): the call of p has ended; Rec(p): what it returned.*)
(***************************************************************************)
Done(p) == call[p].pc = "done"

Rec(p) == call[p].ret[1]

\* text names a diagnostic code other than code, at any position
mentions_other_dtc(code, text) ==
    \E i \in DtcMatches(text) : Upper(SubSeq(text, i, i + 4)) # Upper(code)

References(text, code) == Contains(Upper(text), Upper(code))

\* the summary val is the stored entry, in description, causes and checks
SameContent(val, entry) ==
    /\ val.description = entry.description
    /\ val.causes = entry.causes
    /\ val.checks = entry.checks

\* C1: get_obd_info never raises: whatever reads, writes, searches and AI
\* calls fail, an ended call has returned a record with code, description,
\* causes and checks.
C1_NeverRaises ==
    \A p \in Procs :
        Done(p) =>
            /\ call[p].status = "returned"
            /\ call[p].ret # None
            /\ {"code", "description", "common_causes", "generic_fixes"} \subseteq DOMAIN Rec(p)

\* C2: _sanitize_summary is idempotent: sanitizing its own output gives
\* that output again, in description, causes and checks.
C2_Idempotent ==
    san.pc = "twice" =>
        /\ san.out2.description = san.out.description
        /\ san.out2.causes = san.out.causes
        /\ san.out2.checks = san.out.checks

\* C3: every entry of the external cache and of the promoted-summary store
\* was written from an AI summary; a heuristic summary is returned to the
\* caller of get_external_obd and written to neither store.
C3_OnlyAiPersisted ==
    /\ \A e \in external_obd_cache \cup obd_summaries : e.origin = "ai"
    /\ \A p \in Procs :
          call[p].path = "heuristic" =>
              /\ Done(p)
              /\ call[p].ext_status = "returned"
              /\ call[p].ext_ret = Some(call[p].clean @@ [from_ai |-> FALSE])
              /\ call[p].n_write = 0

\* C3 happens: with an AI-written entry in the cache, a call got a heuristic summary
C3_Witness ==
    \E p \in Procs :
        /\ Done(p)
        /\ call[p].path = "heuristic"
        /\ call[p].ext_ret # None
        /\ external_obd_cache # {}

C5_PromotedFirst ==
    \A p \in Procs :
        (Done(p) /\ call[p].had_pv /\ call[p].status = "returned") =>
            /\ call[p].tier = "promoted"
            /\ call[p].ret = Some(summary_record(call[p].code, call[p].clean))
            /\ ~call[p].read_kb
            /\ call[p].ext_status = "none"

\* C6: with a vehicle override for the (code, vehicle) key and a primary
\* record for the code, the returned causes and checks start with the
\* override's known_issues and priority_checks, and the record carries
\* source = vehicle_override and confidence = 0.98 (in hundredths: 98).
C6_OverrideMerged ==
    \A p \in Procs :
        (/\ Done(p)
         /\ call[p].status = "returned"
         /\ call[p].had_override
         /\ call[p].had_doc
         /\ ~call[p].had_pv) =>
            LET ov == find_one(vehicle_overrides,
                               vehicle_key(call[p].code, call[p].vehicle))[1]
            IN  /\ StartsWith(Rec(p).common_causes, Join(", ", ov.known_issues))
                /\ StartsWith(Rec(p).generic_fixes, Join(", ", ov.priority_checks))
                /\ "source" \in DOMAIN Rec(p)
                /\ Rec(p).source = "vehicle_override"
                /\ "confidence" \in DOMAIN Rec(p)
                /\ Rec(p).confidence = 98

\* C7 as stated: when the cache read, the search call or the AI call of an
\* attempted enrichment raises, get_obd_info returns the sanitized primary
\* record unchanged if there is one, and the generic fallback otherwise.
C7_FailureKeepsBase ==
    \A p \in Procs :
        (Done(p) /\ call[p].ext_fault # "none") =>
            /\ call[p].status = "returned"
            /\ call[p].ret = Some(IF call[p].via = "kb" THEN call[p].base
                                  ELSE generic_fallback(call[p].code))

\* C7, amended: a raising cache read or search call makes get_obd_info
\* return the sanitized primary record unchanged, or the generic fallback
\* when there is none; a raising AI call is absorbed by the summarizer, and
\* get_obd_info returns the record built with the heuristic summary, with
\* nothing written to the cache or the promoted-summary store.
C7_FailureHandled ==
    \A p \in Procs :
        Done(p) =>
            /\ call[p].ext_fault \in {"cache", "search"} =>
                  /\ call[p].status = "returned"
                  /\ call[p].tier \in {"primary", "fallback"}
                  /\ call[p].ret = Some(IF call[p].via = "kb" THEN call[p].base
                                        ELSE generic_fallback(call[p].code))
            /\ call[p].ext_fault = "ai" =>
                  /\ call[p].status = "returned"
                  /\ call[p].path = "heuristic"
                  /\ call[p].n_write = 0
                  /\ call[p].ret =
                        Some(IF call[p].via = "kb"
                             THEN merge_external(call[p].base, call[p].is_generic, call[p].clean)
                             ELSE external_record(call[p].code, call[p].clean))

\* C7 happens: the search call raised while a primary record was being enriched
C7_Witness ==
    \E p \in Procs :
        /\ Done(p)
        /\ call[p].ext_fault = "search"
        /\ call[p].via = "kb"
        /\ call[p].ret = Some(call[p].base)

\* C8: every record get_obd_info builds from a promoted summary, a primary
\* record or an enrichment result has non-empty causes and non-empty checks.
C8_NonEmptyLists ==
    \A p \in Procs :
        (/\ Done(p)
         /\ call[p].status = "returned"
         /\ call[p].tier \in {"promoted", "primary", "external"}) =>
            /\ split_causes(Rec(p).common_causes) # <<>>
            /\ split_checks(Rec(p).generic_fixes) # <<>>

\* C9: no cause and no check returned by _sanitize_summary(X, summary)
\* names a diagnostic code other than X, wherever in the item it stands.
C9_NoOtherCode ==
    san.pc \in {"once", "twice"} =>
        /\ \A i \in 1..Len(san.out.causes) : ~mentions_other_dtc(san.code, san.out.causes[i])
        /\ \A i \in 1..Len(san.out.checks) : ~mentions_other_dtc(san.code, san.out.checks[i])

\* C10: after requests for other codes, the record returned for code B
\* names B and holds no reference to any earlier code A in description,
\* causes or checks.
C10_NoCrossReference ==
    \A p \in Procs :
        (Done(p) /\ call[p].status = "returned") =>
            /\ Rec(p).code = Upper(call[p].code)
            /\ \A A \in call[p].before \ {Upper(call[p].code)} :
                  /\ ~References(Rec(p).description, A)
                  /\ ~References(Rec(p).common_causes, A)
                  /\ ~References(Rec(p).generic_fixes, A)

\* the forum and first-person phrases of tests/test_fallback_safety.py
forum_phrases == {"i bought", "my car", "someone said", "yesterday"}

NoForumPhrase(text) == ~AnyIn(Lower(text), forum_phrases)

\* C11: no cause and no check produced by the sanitizer, and no reply text
\* built from a returned record, holds one of the forum phrases "i bought",
\* "my car", "someone said", "yesterday", in any letter case.
C11_NoForumLanguage ==
    /\ san.pc \in {"once", "twice"} =>
          /\ \A i \in 1..Len(san.out.causes) : NoForumPhrase(san.out.causes[i])
          /\ \A i \in 1..Len(san.out.checks) : NoForumPhrase(san.out.checks[i])
    /\ \A p \in Procs :
          (Done(p) /\ call[p].status = "returned") =>
              NoForumPhrase(webhook_reply(Upper(call[p].code), Rec(p)))

(***************************************************************************)
(* search.py: _trusted_domains, _domain, _web_search_for_code.  One action *)
(* per search-provider call; the provider's answer is any list of up to    *)
(* MaxResults results out of ResultPool, or an exception.                  *)
(***************************************************************************)
MaxResults == 2

trusted_sites_env == "obd-codes.com,autocodes.com,obdii.com"

RECURSIVE LowerAll(_)
LowerAll(items) ==
    IF items = <<>> THEN <<>> ELSE <<Lower(Head(items))>> \o LowerAll(Tail(items))

\* [d.strip().lower() for d in raw.split(",") if d.strip()]
trusted_domains == LowerAll(StripNonEmpty(SplitOn(trusted_sites_env, {","})))

\* urlparse(url).netloc.lower(): the text between "//" and the next "/", "?" or "#"
domain(url) ==
    LET i == Find(url, "//")
    IN  IF i < 0 THEN ""
        ELSE LET rest == SubSeq(url, i + 3, Len(url))
                 J    == {j \in 1..Len(rest) : Char(rest, j) \in {"/", "?", "#"}}
             IN  Lower(IF J = {} THEN rest ELSE SubSeq(rest, 1, SetMin(J) - 1))

v_terms(vehicle) ==
    Strip(Join(" ", StripNonEmpty(<<OrEmpty(vehicle.make), OrEmpty(vehicle.model),
                                    OrEmpty(vehicle.year), OrEmpty(vehicle.engine)>>)))

base_terms(code) == Strip(code \o " OBD-II meaning causes fixes")

site_filters == Join(" OR ", PrefixAll("site:", trusted_domains))

\* variant: the bare query is tried first
queries_bare_first(code, vehicle) ==
    <<base_terms(code),
      Strip(base_terms(code) \o " " \o site_filters),
      IF v_terms(vehicle) # ""
      THEN Strip(base_terms(code) \o " " \o v_terms(vehicle) \o " " \o site_filters)
      ELSE Strip(base_terms(code) \o " " \o site_filters)>>

\* the three progressively relaxed queries
queries(code, vehicle) ==
    <<IF v_terms(vehicle) # ""
      THEN Strip(base_terms(code) \o " " \o v_terms(vehicle) \o " " \o site_filters)
      ELSE Strip(base_terms(code) \o " " \o site_filters),
      Strip(base_terms(code) \o " " \o site_filters),
      base_terms(code)>>

domain_query(code, vehicle, d) ==
    IF v_terms(vehicle) # ""
    THEN Strip(base_terms(code) \o " " \o v_terms(vehicle) \o " site:" \o d)
    ELSE Strip(base_terms(code) \o " site:" \o d)

max_sources == 3

\* the filter loop of one query variant: trusted by suffix, one per netloc, at most max_sources
RECURSIVE filter_trusted(_, _, _)
filter_trusted(results, seen, room) ==
    IF results = <<>> \/ room = 0 THEN <<>>
    ELSE LET dom == domain(Head(results).url)
         IN  IF ~(\E td \in SeqToSet(trusted_domains) : EndsWith(dom, td)) \/ dom \in seen
             THEN filter_trusted(Tail(results), seen, room)
             ELSE <<Head(results)>> \o filter_trusted(Tail(results), seen \cup {dom}, room - 1)

\* the inner loop of the per-domain fallback: the first result of d not yet in agg
RECURSIVE first_of_domain(_, _, _)
first_of_domain(res, d, agg) ==
    IF res = <<>> THEN <<>>
    ELSE LET dom == domain(Head(res).url)
         IN  IF ~EndsWith(dom, d) \/ (\E i \in 1..Len(agg) : domain(agg[i].url) = dom)
             THEN first_of_domain(Tail(res), d, agg)
             ELSE <<Head(res)>>

ResultPool ==
    {[url |-> "https://www.obd-codes.com/p0301", title |-> "P0301", snippet |-> "Cylinder 1 misfire"],
     [url |-> "https://www.obd-codes.com/faq", title |-> "FAQ", snippet |-> "Reading codes"],
     [url |-> "https://www.AutoCodes.com/p0301.html", title |-> "P0301 code", snippet |-> "Misfire detected"],
     [url |-> "https://fakeobd-codes.com/p0301", title |-> "P0301 fix", snippet |-> "Buy our additive"],
     [url |-> "https://forum.example.com/t/123", title |-> "help", snippet |-> "my car shakes"]}

ProviderAnswers == SeqsUpTo(ResultPool, MaxResults)

WsVehicles == {VEmpty, VAllNone, VHilux}

WsInit ==
    /\ \E code \in ReqCodes, vehicle \in WsVehicles, allow \in BOOLEAN :
          ws = [WsIdle EXCEPT !.pc = "variant", !.code = code, !.vehicle = vehicle,
                              !.allow_untrusted = allow, !.idx = 1]
    /\ cfg = DefaultConfig
    /\ obd_codes = KbSeed
    /\ obd_summaries = {}
    /\ external_obd_cache = {}
    /\ vehicle_overrides = OverrideSeed
    /\ call = [p \in Procs |-> IdleCall]
    /\ ncalls = 0
    /\ san = SanIdle
    /\ pm = PmIdle
    /\ hook = HookIdle
    /\ message_logs = <<>>

\* after the last variant: the per-domain loop, or the end when there is no domain
after_variants(w) ==
    IF trusted_domains = <<>> THEN [w EXCEPT !.pc = "done", !.ret = <<>>]
    ELSE [w EXCEPT !.pc = "domain", !.d = 1]

\* one turn of "for idx, q in enumerate(queries, start=1)"
WsVariant ==
    /\ ws.pc = "variant"
    /\ \E results \in ProviderAnswers :
          LET w        == [ws EXCEPT !.queries = @ \o <<queries(ws.code, ws.vehicle)[ws.idx]>>]
              filtered == filter_trusted(results, {}, max_sources)
              last     == ws.idx = Len(queries(ws.code, ws.vehicle))
              onward   == IF last THEN after_variants(w) ELSE [w EXCEPT !.idx = @ + 1]
          IN  ws' = IF results = <<>> THEN onward
                    ELSE IF filtered # <<>> THEN [w EXCEPT !.pc = "done", !.ret = filtered]
                    ELSE IF last /\ ws.allow_untrusted
                         THEN [w EXCEPT !.pc = "done", !.ret = Take(results, max_sources)]
                    ELSE onward
    /\ UNCHANGED <<pm, san, cfg, hook, message_logs, stores, call, ncalls>>

\* one turn of "for d in domains"
WsDomain ==
    /\ ws.pc = "domain"
    /\ \E res \in ProviderAnswers :
          LET d   == trusted_domains[ws.d]
              agg == ws.agg \o first_of_domain(res, d, ws.agg)
              w   == [ws EXCEPT !.queries = @ \o <<domain_query(ws.code, ws.vehicle, d)>>,
                                !.agg = agg]
          IN  ws' = IF ws.d = Len(trusted_domains) \/ Len(agg) >= max_sources
                    THEN [w EXCEPT !.pc = "done", !.ret = Take(agg, max_sources)]
                    ELSE [w EXCEPT !.d = @ + 1]
    /\ UNCHANGED <<pm, san, cfg, hook, message_logs, stores, call, ncalls>>

\* the HTTP request or r.json() of the provider raises: nothing catches it here
WsProviderRaises ==
    /\ ws.pc \in {"variant", "domain"}
    /\ ws' = [ws EXCEPT !.pc = "raised",
                        !.queries = @ \o <<IF ws.pc = "variant"
                                           THEN queries(ws.code, ws.vehicle)[ws.idx]
                                           ELSE domain_query(ws.code, ws.vehicle, trusted_domains[ws.d])>>]
    /\ UNCHANGED <<pm, san, cfg, hook, message_logs, stores, call, ncalls>>

WsNext == WsVariant \/ WsDomain \/ WsProviderRaises

WebSpec == WsInit /\ [][WsNext]_vars

\* dom is a trusted domain or a host below one
on_allow_list(dom) ==
    \E td \in SeqToSet(trusted_domains) : dom = td \/ EndsWith(dom, "." \o td)

\* C12: every source returned by _web_search_for_code has a URL whose domain is on
\* the trusted-domain allow-list, at most 3 sources are returned, and the domains of
\* the returned sources are pairwise distinct
C12_TrustedSources ==
    ws.pc = "done" =>
        /\ \A i \in 1..Len(ws.ret) : on_allow_list(domain(ws.ret[i].url))
        /\ Len(ws.ret) <= 3
        /\ \A i, j \in 1..Len(ws.ret) :
              i # j => domain(ws.ret[i].url) # domain(ws.ret[j].url)

\* the low-information test of a primary record: description empty or the generic
\* placeholder, or no causes
LowInformation(base) ==
    \/ Strip(base.description) = ""
    \/ Contains(Lower(base.description), "generic obd-ii dtc")
    \/ split_causes(base.common_causes) = <<>>

\* C13: when a primary record was read, get_external_obd is invoked if and only if the
\* record is low-information or the force-enrich flag is set; otherwise the call makes
\* no external-cache read, no search call and no AI call
C13_EnrichGate ==
    \A p \in Procs :
        LET c == call[p]
        IN  (Done(p) /\ c.read_kb /\ c.had_doc) =>
                /\ (c.via = "kb") <=> (LowInformation(c.base) \/ cfg.always_enrich)
                /\ (c.via # "kb") =>
                       /\ c.ext_status = "none"
                       /\ c.n_cread = 0 /\ c.n_search = 0 /\ c.n_ai = 0

\* a curated record was returned while enrichment was available and never invoked
C13_Witness ==
    \E p \in Procs :
        LET c == call[p]
        IN  /\ Done(p) /\ c.read_kb /\ c.had_doc
            /\ cfg.internet /\ ~cfg.always_enrich
            /\ c.via = "none" /\ c.tier = "primary" /\ ~LowInformation(c.base)

\* the items of ext, from position i on, that equal no item of base and no earlier
\* item of ext when letter case is ignored
RECURSIVE NewItems(_, _, _)
NewItems(base_items, ext, i) ==
    IF i > Len(ext) THEN <<>>
    ELSE (IF \/ \E k \in 1..Len(base_items) : Lower(base_items[k]) = Lower(ext[i])
             \/ \E j \in 1..(i - 1) : Lower(ext[j]) = Lower(ext[i])
          THEN <<>> ELSE <<ext[i]>>)
         \o NewItems(base_items, ext, i + 1)

\* enrichment returned a result to a call that had read a primary record
EnrichedPrimary(p) ==
    /\ Done(p) /\ call[p].via = "kb"
    /\ call[p].ext_status = "returned" /\ call[p].ext_ret # None

GenericDescription(desc) ==
    Strip(desc) = "" \/ Contains(Lower(desc), "generic obd-ii dtc")

\* C15: when enrichment returns a result for an existing primary record, the returned
\* description is the external description only if the base description was generic;
\* a non-generic base description is returned unchanged, also under forced enrichment
C15_DescriptionOnlyIfGeneric ==
    \A p \in Procs :
        EnrichedPrimary(p) =>
            LET c        == call[p]
                ext_desc == Strip(c.ext_ret[1].description)
            IN  /\ ~GenericDescription(c.base.description) =>
                       Rec(p).description = c.base.description
                /\ GenericDescription(c.base.description) =>
                       Rec(p).description = IF ext_desc # "" THEN ext_desc ELSE c.base.description

\* forced enrichment of a record with a real description: the external description
\* differs and the stored one is returned
C15_Witness ==
    \E p \in Procs :
        /\ EnrichedPrimary(p) /\ cfg.always_enrich
        /\ ~GenericDescription(call[p].base.description)
        /\ Strip(call[p].ext_ret[1].description) \notin {"", call[p].base.description}
        /\ Rec(p).description = call[p].base.description

\* no promoted summary and no primary record for the code, and enrichment was tried
\* and gave nothing: it is disabled, found no usable source, or raised
NothingFound(p) ==
    /\ Done(p) /\ ~call[p].had_pv /\ ~call[p].had_doc
    /\ \/ call[p].ext_status = "returned" /\ call[p].ext_ret = None
       \/ call[p].ext_status = "raised"

\* C16: with no promoted summary, no primary record and no enrichment result,
\* get_obd_info returns the fixed generic record for the upper-cased code
C16_GenericFallback ==
    \A p \in Procs :
        NothingFound(p) =>
            /\ call[p].status = "returned"
            /\ Rec(p) = [code |-> Upper(call[p].code),
                         description |-> "Generic OBD-II DTC.",
                         symptoms |-> "",
                         common_causes |-> "Vacuum leak, faulty sensor, wiring issue",
                         generic_fixes |->
                             "Inspect vacuum lines, check connectors, verify sensor readings"]

\* a lower-case code without any record, whose search found no usable source
C16_Witness ==
    \E p \in Procs :
        /\ NothingFound(p) /\ cfg.internet
        /\ call[p].code # Upper(call[p].code)
        /\ call[p].n_search = 1 /\ call[p].ext_status = "returned"
        /\ call[p].tier = "fallback"

\* C17: vehicle=None and a vehicle whose four fields are None give the same normalized
\* key (four empty strings) at every tier: with a promoted summary stored under that key
\* both read it and return it, and both use that key for the external cache
C17_NoneLikeAllNone ==
    \A p \in Procs :
        LET c == call[p]
        IN  (/\ Done(p) /\ c.status = "returned"
             /\ c.vehicle \in {VNone, VAllNone}
             /\ c.had_pv /\ cfg.save_env \in {"unset", "true"}) =>
                /\ c.read_pv
                /\ c.pv # None => c.tier = "promoted"
                /\ c.n_cread > 0 =>
                      vehicle_key(c.ecode, c.evehicle) = vehicle_key(c.code, VAllNone)

\* summary is what sanitize-on-read, applied once or twice, makes of written
Repaired(code, written, summary) ==
    LET s1 == sanitize_summary(code, written)
    IN  summary = s1 \/ summary = sanitize_summary(code, s1)

\* description, causes and checks of a stored entry are those its sources were
\* written with, or their sanitized form
OneEnrichment(e) ==
    LET summary == Summary(e.description, e.causes, e.checks)
    IN  summary = e.enriched \/ Repaired(e.code, e.enriched, summary)

\* C18: under every interleaving of concurrent requests for one (code, vehicle) key,
\* description, causes, checks and sources of every stored external-cache entry and
\* promoted-summary entry come from one single enrichment
C18_NoMixedEntry ==
    \A e \in external_obd_cache \cup obd_summaries : OneEnrichment(e)

\* C19: with INTERNET_FALLBACK_ENABLED off, get_external_obd returns None and makes
\* no datastore read, no search call, no AI call and no store write
C19_DisabledDoesNothing ==
    \A p \in Procs :
        LET c == call[p]
        IN  (c.ext_status # "none" /\ ~cfg.internet) =>
                /\ c.ext_status = "returned" /\ c.ext_ret = None
                /\ c.n_cread = 0 /\ c.n_search = 0 /\ c.n_ai = 0 /\ c.n_write = 0
                /\ external_obd_cache = {} /\ obd_summaries = {}

\* get_external_obd was called with enrichment disabled and has returned
C19_Witness ==
    \E p \in Procs :
        /\ Done(p) /\ ~cfg.internet
        /\ call[p].via = "nf" /\ call[p].ext_status = "returned"

\* an AI response that is no JSON object, or lacks a non-empty description, causes
\* or checks
Malformed(resp) ==
    \/ resp.kind = "unparseable"
    \/ /\ resp.kind = "json"
       /\ \/ Strip(resp.data.description) = ""
          \/ \A i \in 1..Len(resp.data.causes) : Strip(resp.data.causes[i]) = ""
          \/ \A i \in 1..Len(resp.data.checks) : Strip(resp.data.checks[i]) = ""

\* the AI provider answered this call with a malformed response
GotMalformed(p) ==
    /\ Done(p) /\ call[p].ai_resp # None
    /\ Malformed(call[p].ai_resp[1])

\* C20: a malformed AI response is treated as AI failure: get_external_obd returns the
\* sanitized heuristic summary and writes nothing to the external cache or the
\* promoted-summary store
C20_MalformedIsFailure ==
    \A p \in Procs :
        GotMalformed(p) =>
            LET c == call[p]
            IN  /\ c.ext_status = "returned"
                /\ c.ext_ret = Some(sanitize_summary(c.ecode, heuristic_summary(c.ecode, c.results))
                                    @@ [from_ai |-> FALSE])
                /\ c.n_write = 0
                /\ \A e \in external_obd_cache \cup obd_summaries : e.origin = "ai"

\* the response was a JSON object without causes, and the caller got a record
C20_Witness ==
    \E p \in Procs :
        /\ GotMalformed(p) /\ call[p].ai_resp[1].kind = "json"
        /\ call[p].status = "returned" /\ call[p].tier = "external"

\* what get_obd_info makes of the value get_external_obd returned
FromExternal(c, external) ==
    IF c.via = "kb" THEN merge_external(c.base, c.is_generic, external)
    ELSE external_record(c.code, external)

\* C21: when a write to the external cache, the promoted-summary store or the primary
\* record raises, the call still returns the value it returns when the write succeeds
C21_WriteFailureIgnored ==
    \A p \in Procs :
        LET c == call[p]
        IN  (Done(p) /\ c.wfail # {}) =>
                /\ c.status = "returned"
                /\ "promoted" \in c.wfail =>
                       c.ret = Some(summary_record(c.code, c.clean))
                /\ c.wfail \cap {"cache", "summary"} # {} =>
                       /\ c.ext_ret = Some(c.clean @@ [from_ai |-> TRUE])
                       /\ c.ret = Some(FromExternal(c, c.ext_ret[1]))
                /\ "primary" \in c.wfail =>
                       \E doc \in {find_one(obd_codes, [code |-> Upper(c.code)])[1]} :
                           /\ c.base = primary_base(doc, clean_primary(c.code, doc))
                           /\ c.tier = "primary" => c.ret = Some(c.base)
                           /\ c.tier = "external" => c.ret = Some(FromExternal(c, c.ext_ret[1]))

\* both enrichment writes raised and the caller still got the enriched record
C21_Witness ==
    \E p \in Procs :
        /\ Done(p) /\ {"cache", "summary"} \subseteq call[p].wfail
        /\ call[p].status = "returned" /\ call[p].tier = "external"
        /\ external_obd_cache = {} /\ obd_summaries = {}

\* C22: _sanitize_summary never makes an empty causes list out of a non-empty one,
\* nor an empty checks list out of a non-empty one
C22_NonEmptyKept ==
    san.pc \in {"once", "twice"} =>
        /\ san.input.causes # <<>> => san.out.causes # <<>>
        /\ san.input.checks # <<>> => san.out.checks # <<>>

\* a misfire-family code went through _sanitize_summary with fewer than 3 causes left
\* by the filter
WeakMisfire ==
    /\ san.pc \in {"once", "twice"}
    /\ IsMisfireCode(Strip(Upper(san.code)))
    /\ Len(sanitize_causes(san.code, san.input.causes)) < 3

NamesCylinder(item, n) == Contains(item, "(cylinder " \o IntStr(n) \o ")")

\* C23: for a misfire-family code with fewer than 3 causes after filtering,
\* _sanitize_summary returns at least 3 causes and at least 3 checks, and every
\* returned cause and check names the cylinder given by the code's suffix
C23_EveryItemNamesCylinder ==
    WeakMisfire =>
        LET n == CylNum(Strip(Upper(san.code)))
        IN  /\ Len(san.out.causes) >= 3 /\ Len(san.out.checks) >= 3
            /\ \A i \in 1..Len(san.out.causes) : NamesCylinder(san.out.causes[i], n)
            /\ \A i \in 1..Len(san.out.checks) : NamesCylinder(san.out.checks[i], n)

\* C23 as the code has it: at least 3 causes and 3 checks; for a non-zero suffix every
\* returned cause names that cylinder except the vacuum-leak cause, and so does every
\* check except the vacuum-leak check when fewer than 3 checks were left; 3 or more
\* checks that were left are returned as they are
C23_BackfillNamesCylinder ==
    WeakMisfire =>
        LET n    == CylNum(Strip(Upper(san.code)))
            kept == sanitize_checks(san.code, san.input.checks,
                                    sanitize_causes(san.code, san.input.causes))
        IN  /\ Len(san.out.causes) >= 3 /\ Len(san.out.checks) >= 3
            /\ n # 0 => \A i \in 1..Len(san.out.causes) :
                           \/ NamesCylinder(san.out.causes[i], n)
                           \/ san.out.causes[i] = "Vacuum leak near intake manifold"
            /\ n # 0 => \E i \in 1..Len(san.out.causes) : NamesCylinder(san.out.causes[i], n)
            /\ (n # 0 /\ Len(kept) < 3) =>
                   \A i \in 1..Len(san.out.checks) :
                       \/ NamesCylinder(san.out.checks[i], n)
                       \/ san.out.checks[i] = "Check for vacuum leaks around intake hoses/gaskets"
            /\ Len(kept) >= 3 => san.out.checks = kept

\* P0301 with one surviving cause: six causes come back, five naming cylinder 1
C23_Witness ==
    /\ WeakMisfire /\ san.pc = "once" /\ san.code = "P0301"
    /\ Len(sanitize_causes(san.code, san.input.causes)) = 1
    /\ Len(san.out.causes) = 6
    /\ NamesCylinder(san.out.causes[1], 1)

\* no two items of the list are equal when letter case is ignored
NoDuplicates(items) ==
    \A i, j \in 1..Len(items) : Lower(items[i]) = Lower(items[j]) => i = j

\* C24: every record returned by get_obd_info, on every path including the merge of
\* base and external, has at most 6 causes and at most 6 checks, none of them repeated
\* when letter case is ignored
C24_AtMostSixDistinct ==
    \A p \in Procs :
        (Done(p) /\ call[p].status = "returned") =>
            LET causes == split_causes(Rec(p).common_causes)
                checks == split_checks(Rec(p).generic_fixes)
            IN  /\ Len(causes) <= 6 /\ Len(checks) <= 6
                /\ NoDuplicates(causes) /\ NoDuplicates(checks)

\* C25: every check in the output of _sanitize_summary contains one of the recognized
\* action verbs, also when the checks were synthesized from the causes
C25_ChecksHaveVerb ==
    san.pc \in {"once", "twice"} =>
        \A i \in 1..Len(san.out.checks) : AnyIn(Lower(san.out.checks[i]), allowed_verbs)

(***************************************************************************)
(* parser.py parse_message and obd.py validate_obd_code, as pure functions *)
(* of the message text.  An absent value (None) is NoneV.                  *)
(***************************************************************************)
\* str.replace(old, new): every occurrence, left to right
RECURSIVE ReplaceAll(_, _, _)
ReplaceAll(s, old, new) ==
    LET i == Find(s, old)
    IN  IF old = "" \/ i = -1 THEN s
        ELSE SubSeq(s, 1, i) \o new \o ReplaceAll(SubSeq(s, i + Len(old) + 1, Len(s)), old, new)

\* _OBD_CODE_PATTERN = \b([PpBbCcUu])\s*([0-9O]{4})\b matched at position i of s:
\* the position of its first digit, 0 without a match
code_digits_at(s, i) ==
    LET rest == {j \in (i + 1)..Len(s) : Char(s, j) \notin WS}
        j    == IF rest = {} THEN 0 ELSE SetMin(rest)
    IN  IF /\ i <= Len(s)
           /\ Char(s, i) \in {"P", "p", "B", "b", "C", "c", "U", "u"}
           /\ WordBoundary(s, i)
           /\ j # 0 /\ j + 3 <= Len(s)
           /\ \A k \in 0..3 : Char(s, j + k) \in DigitChars \cup {"O"}
           /\ WordBoundary(s, j + 4)
        THEN j ELSE 0

\* _YEAR_PATTERN = \b(19|20)\d{2}\b
year_at(s, i) ==
    /\ i + 3 <= Len(s)
    /\ WordBoundary(s, i)
    /\ SubSeq(s, i, i + 1) \in {"19", "20"}
    /\ Char(s, i + 2) \in DigitChars /\ Char(s, i + 3) \in DigitChars
    /\ WordBoundary(s, i + 4)

\* _ENGINE_PATTERN = \b(\d\.\dL|[VvIi]\d)\b: the length of the match at i, 0 without one
engine_at(s, i) ==
    IF ~WordBoundary(s, i) THEN 0
    ELSE IF /\ i + 3 <= Len(s)
            /\ Char(s, i) \in DigitChars /\ Char(s, i + 1) = "."
            /\ Char(s, i + 2) \in DigitChars /\ Char(s, i + 3) = "L"
            /\ WordBoundary(s, i + 4)
         THEN 4
    ELSE IF /\ i + 1 <= Len(s)
            /\ Char(s, i) \in {"V", "v", "I", "i"} /\ Char(s, i + 1) \in DigitChars
            /\ WordBoundary(s, i + 2)
         THEN 2
    ELSE 0

\* parser.py lines 9-12
normalize_code(letter, digits) == Upper(letter) \o ReplaceAll(Upper(digits), "O", "0")

\* [t for t in re.split(r"\s+", re.sub(r"[\-_,.;]+", " ", cleaned)) if t]
RECURSIVE NonEmpty(_)
NonEmpty(items) ==
    IF items = <<>> THEN <<>>
    ELSE (IF Head(items) = "" THEN <<>> ELSE <<Head(items)>>) \o NonEmpty(Tail(items))

tokens_of(cleaned) == NonEmpty(SplitOn(cleaned, WS \cup {"-", "_", ",", ".", ";"}))

\* parser.py lines 15-57
parse_message(text) ==
    LET t  == Strip(IF text = NoneV THEN "" ELSE text)
        M  == {i \in 1..Len(t) : code_digits_at(t, i) # 0}
        m  == IF M = {} THEN 0 ELSE SetMin(M)
        j  == code_digits_at(t, m)
        code == IF m = 0 THEN NoneV
                ELSE normalize_code(Char(t, m), SubSeq(t, j, j + 3))
        vehicle_text == IF m = 0 THEN t
                        ELSE Strip(SubSeq(t, 1, m - 1) \o " " \o SubSeq(t, j + 4, Len(t)))
        Y  == {i \in 1..Len(vehicle_text) : year_at(vehicle_text, i)}
        E  == {i \in 1..Len(vehicle_text) : engine_at(vehicle_text, i) # 0}
        year   == IF Y = {} THEN NoneV ELSE SubSeq(vehicle_text, SetMin(Y), SetMin(Y) + 3)
        engine == IF E = {} THEN NoneV
                  ELSE SubSeq(vehicle_text, SetMin(E),
                              SetMin(E) + engine_at(vehicle_text, SetMin(E)) - 1)
        no_year == IF year = NoneV THEN vehicle_text ELSE ReplaceAll(vehicle_text, year, " ")
        cleaned == IF engine = NoneV THEN no_year ELSE ReplaceAll(no_year, engine, " ")
        tokens  == tokens_of(cleaned)
    IN  [code   |-> code,
         make   |-> IF Len(tokens) > 0 THEN tokens[1] ELSE NoneV,
         model  |-> IF Len(tokens) > 1 THEN tokens[2] ELSE NoneV,
         year   |-> year,
         engine |-> engine]

\* obd.py lines 5-9: _OBD_REGEX = ^[PBCU][0-9]{4}$ (IGNORECASE), matched against
\* (code or ""); "$" is the end of the string or the place before a closing "\n"
validate_obd_code(code) ==
    LET c == IF code = NoneV THEN "" ELSE code
    IN  /\ Len(c) = 5 \/ (Len(c) = 6 /\ Char(c, 6) = "\n")
        /\ Char(c, 1) \in {"P", "B", "C", "U", "p", "b", "c", "u"}
        /\ \A k \in 2..5 : Char(c, k) \in DigitChars

\* message texts: P0301 (or a near miss) in several spellings, inside other words or not
PmPrefixes == {"", "code ", "x"}
PmLetters  == {"P", "p", "X"}
PmGaps     == {"", " ", "  "}
PmDigits   == {"0301", "O3O1", "o3o1", "03 01", "030", "03011"}
PmSuffixes == {"", " Toyota Hilux 2011 V6", "\n"}

PmTexts ==
    {a \o l \o g \o d \o z : a \in PmPrefixes, l \in PmLetters, g \in PmGaps,
                             d \in PmDigits, z \in PmSuffixes}

ParseInit ==
    /\ \E text \in PmTexts \cup {NoneV} : pm = [PmIdle EXCEPT !.pc = "in", !.text = text]
    /\ cfg = DefaultConfig
    /\ obd_codes = KbSeed
    /\ obd_summaries = {}
    /\ external_obd_cache = {}
    /\ vehicle_overrides = OverrideSeed
    /\ call = [p \in Procs |-> IdleCall]
    /\ hook = HookIdle
    /\ message_logs = <<>>
    /\ ncalls = 0
    /\ san = SanIdle
    /\ ws = WsIdle

\* parsed = parse_message(raw_text)
ParseMessage ==
    /\ pm.pc = "in"
    /\ pm' = [pm EXCEPT !.pc = "parsed", !.parsed = Some(parse_message(pm.text))]
    /\ UNCHANGED <<ws, san, cfg, hook, message_logs, stores, call, ncalls>>

\* validate_obd_code(text)
ValidateCode ==
    /\ pm.pc = "in"
    /\ pm' = [pm EXCEPT !.pc = "validated", !.valid = Some(validate_obd_code(pm.text))]
    /\ UNCHANGED <<ws, san, cfg, hook, message_logs, stores, call, ncalls>>

ParseNext == ParseMessage \/ ValidateCode

ParseSpec == ParseInit /\ [][ParseNext]_vars

\* text without its whitespace, in upper case, with every letter O read as digit 0
Squash(text) == ReplaceAll(Upper(Join("", SplitOn(text, WS))), "O", "0")

\* text holds, as words of their own, a spelling of code: any letter case, any spacing
\* between its characters, letter O for digit 0
SpellsCode(text, code) ==
    \E i \in 1..Len(text) : \E j \in i..Len(text) :
        /\ WordBoundary(text, i) /\ WordBoundary(text, j + 1)
        /\ Char(text, i) \notin WS /\ Char(text, j) \notin WS
        /\ Squash(SubSeq(text, i, j)) = code

\* C26: for any text containing the code P0301 in any letter case, with any spacing
\* between its characters and with letter O typed for digit 0, parse_message returns
\* code "P0301"
C26_ParsesP0301 ==
    (pm.pc = "parsed" /\ pm.text # NoneV /\ SpellsCode(pm.text, "P0301")) =>
        pm.parsed[1].code = "P0301"

\* the whole string is one letter of P, B, C, U in either case and four decimal digits
CodeShaped(c) ==
    /\ c # NoneV
    /\ Len(c) = 5
    /\ UpperChar(Char(c, 1)) \in {"P", "B", "C", "U"}
    /\ \A k \in 2..5 : Char(c, k) \in DigitChars

\* C27: validate_obd_code(code) is true if and only if the whole string is one letter of
\* P, B, C, U (either case) followed by exactly four decimal digits; it is false for
\* everything else: the empty string, None, extra leading or trailing characters,
\* P030, X0301
C27_ValidIffCodeShaped ==
    pm.pc = "validated" => (pm.valid[1] <=> CodeShaped(pm.text))

\* webhook messages that carry a code written as one letter and four digits, alone or
\* among vehicle words, with the code each of them asks for
WebhookRequests ==
    {[text |-> "P0171", code |-> "P0171"],
     [text |-> "p0171 Toyota Hilux 2011 V6", code |-> "P0171"],
     [text |-> "Corolla 2015 1.6L  P0420", code |-> "P0420"],
     [text |-> "code p0420\n", code |-> "P0420"]}

\* twilio_webhook lines 161-183: the message r is parsed, its code passes
\* validate_obd_code and get_obd_info(db, code) is the call of p
AnswersRequest(p, r) ==
    /\ Done(p) /\ call[p].status = "returned" /\ call[p].vehicle = VNone
    /\ parse_message(r.text).code = call[p].code
    /\ validate_obd_code(call[p].code)

SanitizedDoc(code, doc) ==
    LET cleaned == clean_primary(code, doc)
    IN  [doc EXCEPT !.description = cleaned.description,
                    !.common_causes = Join(", ", cleaned.causes),
                    !.generic_fixes = Join(", ", cleaned.checks)]

\* C29: no step of get_obd_info or get_external_obd writes externally obtained
\* description, causes or checks into the primary knowledge base: a step that changes
\* obd_codes replaces one record of the requested code by the sanitized form of that
\* record's own stored fields
C29_PrimaryOnlySanitized ==
    [][obd_codes' # obd_codes =>
          \E p \in Procs : \E doc \in obd_codes :
              /\ doc.code = Upper(call[p].code)
              /\ obd_codes' = (obd_codes \ {doc}) \cup {SanitizedDoc(call[p].code, doc)}]_vars

\* a call rewrote its primary record and returned it merged with an AI summary that was
\* cached: the stored record holds none of the merged causes
C29_Witness ==
    /\ Done(1) /\ call[1].status = "returned"
    /\ call[1].via = "kb" /\ call[1].tier = "external" /\ call[1].path = "ai"
    /\ call[1].n_repair > 0 /\ call[1].n_write > 0
    /\ obd_codes # KbSeed
    /\ \E doc \in obd_codes :
          /\ doc.code = Upper(call[1].code)
          /\ doc.common_causes # Rec(1).common_causes

\* C30: every record returned by get_obd_info carries a source tag and a confidence
\* fixed by the tier that produced it: source = local with confidence 0.95 for a primary
\* record without override, source = fallback with confidence 0.30 for the generic
\* fallback (confidences in hundredths: 95, 30)
C30_SourceAndConfidence ==
    \A p \in Procs :
        (Done(p) /\ call[p].status = "returned") =>
            /\ "source" \in DOMAIN Rec(p)
            /\ "confidence" \in DOMAIN Rec(p)
            /\ (call[p].tier = "primary" /\ ~call[p].had_override) =>
                   (Rec(p).source = "local" /\ Rec(p).confidence = 95)
            /\ call[p].tier = "fallback" =>
                   (Rec(p).source = "fallback" /\ Rec(p).confidence = 30)

\* 0-based position of the marker that occurs first in low, -1 without any
FirstMarker(low) ==
    LET P == {Find(low, bad_desc_terms[k]) : k \in 1..Len(bad_desc_terms)} \ {-1}
    IN  IF P = {} THEN -1 ELSE SetMin(P)

\* C36: the description returned by _sanitize_summary contains none of the low-quality
\* markers; when the input contains markers, the output is the text preceding the
\* marker that occurs first in the input
C36_NoMarkerInDescription ==
    san.pc \in {"once", "twice"} =>
        LET desc == CollapseWs(Strip(san.input.description))
            idx  == FirstMarker(Lower(desc))
        IN  /\ FirstMarker(Lower(san.out.description)) = -1
            /\ idx # -1 =>
                   LET cut == RStripSet(Strip(SubSeq(desc, 1, idx)), {"-", ":", ";", ","})
                   IN  ~desc_needs_backfill(cut) => san.out.description = cut

(***************************************************************************)
(* get_obd_info with the search of get_external_obd taken provider call by *)
(* provider call: at "ext_search" _web_search_for_code is entered, its     *)
(* loops run as in WsVariant and WsDomain, and its result goes back to     *)
(* get_external_obd.                                                       *)
(***************************************************************************)
ResolveCalls == 1
ResolveCodes == {"P0420", "p0301"}
ResolveVehicles == {VNone, VAllNone, VHilux}

\* the per-vehicle summary that an earlier get_external_obd(db, "P0301", vehicle with
\* four None fields) saved from the AI answer AiGood (search.py lines 555-585)
SavedSummary ==
    LET clean == sanitize_summary("P0301", AiGood)
    IN  SetFields(vehicle_key("P0301", VAllNone),
                  [description |-> clean.description, causes |-> clean.causes,
                   checks |-> clean.checks, sources |-> Urls(SearchHit),
                   origin |-> "ai", enriched |-> clean])

ResolveConfigs ==
    {c \in Configs : c.internet /\ c.save_env = "true" /\ ~c.always_enrich}

ResolveInit ==
    /\ cfg \in ResolveConfigs
    /\ obd_codes = KbSeed
    /\ obd_summaries = {SavedSummary}
    /\ external_obd_cache = {}
    /\ vehicle_overrides = OverrideSeed
    /\ call = [p \in Procs |-> IdleCall]
    /\ ncalls = 0
    /\ san = SanIdle
    /\ ws = WsIdle
    /\ pm = PmIdle
    /\ hook = HookIdle
    /\ message_logs = <<>>

ResolveStart == StartWith(1, ResolveCodes, ResolveVehicles, ResolveCalls)

\* search.py line 455: results = await _web_search_for_code(code, vehicle);
\* ALLOW_UNTRUSTED_FALLBACK is read from the environment
SearchBegin ==
    /\ call[1].pc = "ext_search"
    /\ \E allow \in BOOLEAN :
          ws' = [WsIdle EXCEPT !.pc = "variant", !.code = call[1].ecode,
                               !.vehicle = call[1].evehicle,
                               !.allow_untrusted = allow, !.idx = 1]
    /\ SetCall(1, [call[1] EXCEPT !.pc = "ext_searching"])
    /\ UNCHANGED <<pm, san, cfg, hook, message_logs, stores, ncalls>>

\* _web_search_for_code returned or raised: lines 455-462, and obd.py lines 175, 201
\* for the exception
SearchEnd ==
    /\ call[1].pc = "ext_searching"
    /\ ws.pc \in {"done", "raised"}
    /\ IF ws.pc = "raised"
       THEN SetCall(1, ExtRaise([call[1] EXCEPT !.n_search = @ + 1], "search"))
       ELSE Searched(1, call[1], ws.ret)
    /\ UNCHANGED <<pm, ws, san, cfg, hook, message_logs, stores, ncalls>>

ResolveNext ==
    \/ ResolveStart
    \/ Enter(1)
    \/ PromotedWrite(1)
    \/ KbRead(1)
    \/ KbWrite(1)
    \/ ExtCache(1)
    \/ SearchBegin
    \/ WsVariant
    \/ WsDomain
    \/ WsProviderRaises
    \/ SearchEnd
    \/ ExtSummarize(1)
    \/ ExtWriteCache(1)
    \/ ExtWriteSummary(1)

ResolveSpec == ResolveInit /\ [][ResolveNext]_vars

\* the positions at which a call waits for an await (a store, the search provider's
\* answer being assembled, the AI provider)
AwaitPcs ==
    {"enter", "pv_write", "kb_read", "kb_write", "ext_cache", "ext_search", "ext_searching",
     "ext_summarize", "ext_wcache", "ext_wsummary"}

\* the await pending at position k ends: the guard of the step of ResolveNext taken at k.
\* ENABLED of that step is its guard; it is stated apart from the step because TLC
\* evaluates ENABLED without caching the strings the step computes
AwaitEnds(k) ==
    /\ call[1].pc = k
    /\ call' = [call EXCEPT ![1].pc = "done"]
    /\ UNCHANGED <<pm, ws, san, cfg, hook, message_logs, stores, ncalls>>

\* the pending provider call of the search, its n-th, ends
ProviderCallEnds(n) ==
    /\ ws.pc \in {"variant", "domain"}
    /\ Len(ws.queries) = n
    /\ ws' = [ws EXCEPT !.pc = "raised"]
    /\ UNCHANGED <<pm, san, cfg, hook, message_logs, stores, call, ncalls>>

\* every await returns or raises (httpx timeout=15.0, the drivers' own timeouts): the
\* call does not wait forever at one position
ResolveLive ==
    /\ ResolveSpec
    /\ \A k \in AwaitPcs : WF_vars(AwaitEnds(k))
    /\ \A n \in 0..(2 + Len(trusted_domains)) : WF_vars(ProviderCallEnds(n))

\* the stretches of one get_obd_info call, in the order of the code
TierRank(pc) ==
    CASE pc = "enter" -> 1
      [] pc = "pv_write" -> 2
      [] pc = "kb_read" -> 3
      [] pc = "kb_write" -> 4
      [] pc = "ext_cache" -> 5
      [] pc = "ext_search" -> 6
      [] pc = "ext_searching" -> 7
      [] pc = "ext_summarize" -> 8
      [] pc = "ext_wcache" -> 9
      [] pc = "ext_wsummary" -> 10
      [] OTHER -> 11

\* a step of a running call moves it to a later stretch, never back and never to the same one
MovesForward ==
    (call[1].pc \notin {"idle", "done"} /\ call'[1] # call[1]) =>
        TierRank(call'[1].pc) > TierRank(call[1].pc)

\* the search-provider calls of the resolution, and its calls of the AI provider
WithinBudget ==
    /\ Len(ws.queries) <= 3 + Len(trusted_domains)
    /\ call[1].n_search <= 1
    /\ call[1].n_ai <= 1

VehicleWords == v_terms(ws.vehicle)

\* the i-th query issued is the i-th of: code + vehicle + site filter, code + site
\* filter, bare code, then one query per trusted domain, in the order of the list
IssuedInOrder(i) ==
    LET q      == ws.queries[i]
        sites  == Contains(q, " OR site:")
        words  == VehicleWords # "" /\ Contains(q, VehicleWords)
    IN  /\ Contains(q, ws.code)
        /\ (i = 1 => (sites /\ (VehicleWords # "" => words)))
        /\ (i = 2 => (sites /\ ~words))
        /\ (i = 3 => (~Contains(q, "site:") /\ ~words))
        /\ (i > 3 => (/\ i - 3 <= Len(trusted_domains)
                      /\ EndsWith(q, " site:" \o trusted_domains[i - 3])
                      /\ ~Contains(q, " OR ")))

\* C33: the search variants are issued in the order (a) code + vehicle + site filter,
\* (b) code + site filter, (c) bare code; a later query is issued only while no earlier
\* one has yielded a source, the per-domain queries only after all three variants; and
\* when the search finds nothing get_external_obd returns None, with no call of the AI
\* provider and no store written
C33_RelaxedInOrder ==
    /\ \A i \in 1..Len(ws.queries) : IssuedInOrder(i)
    /\ ws.pc \in {"variant", "domain"} => ws.ret = <<>>
    /\ ws.pc = "variant" => ws.agg = <<>> /\ Len(ws.queries) = ws.idx - 1
    /\ ws.pc = "domain" => Len(ws.queries) = 3 + ws.d - 1 /\ Len(ws.agg) < max_sources
    /\ (ws.pc = "done" /\ ws.agg = <<>> /\ ws.ret # <<>>) => Len(ws.queries) <= 3
    /\ (Done(1) /\ call[1].n_search = 1 /\ call[1].ext_status = "returned"
            /\ call[1].results = <<>>) =>
          /\ call[1].ext_ret = None
          /\ call[1].n_ai = 0 /\ call[1].n_write = 0
          /\ external_obd_cache = {}
          /\ \A f \in {"description", "causes", "checks"} :
                \A d \in obd_summaries : d[f] = SavedSummary[f] \/ call[1].n_repair > 0

\* every variant and every trusted domain was tried, nothing was found, and
\* get_external_obd returned None
C33_Witness ==
    /\ Done(1) /\ call[1].status = "returned"
    /\ call[1].n_search = 1 /\ call[1].results = <<>> /\ call[1].ext_ret = None
    /\ Len(ws.queries) = 3 + Len(trusted_domains)
    /\ ws.vehicle = VHilux

(***************************************************************************)
(* Read-repair: two get_obd_info calls for the same key, one after the     *)
(* other, on a knowledge base that holds a record loaded from a dataset    *)
(* (db/seed.py inserts dataset text as it is) and a saved summary.         *)
(***************************************************************************)
RepairCalls == 2

\* a dataset record whose description carries a forum marker
LegacyRecord ==
    [code |-> "P0700",
     description |-> "Range sensor fault - reddit",
     symptoms |-> "",
     common_causes |-> "Faulty range sensor, Wiring damage near gearbox",
     generic_fixes |-> "Inspect range sensor, Check wiring continuity"]

RepairCodes == {"P0700", "P0420", "p0301"}
RepairVehicles == {VNone, VAllNone}

RepairInit ==
    /\ cfg \in {c \in Configs : ~c.internet}
    /\ obd_codes = KbSeed \cup {LegacyRecord}
    /\ obd_summaries = {SavedSummary}
    /\ external_obd_cache = {}
    /\ vehicle_overrides = OverrideSeed
    /\ call = [p \in Procs |-> IdleCall]
    /\ ncalls = 0
    /\ san = SanIdle
    /\ ws = WsIdle
    /\ pm = PmIdle
    /\ hook = HookIdle
    /\ message_logs = <<>>

\* the first call
RepairFirst == ncalls = 0 /\ StartWith(1, RepairCodes, RepairVehicles, RepairCalls)

\* the second call, for the key of the first, once the first has returned
RepairSecond ==
    /\ ncalls = 1
    /\ Done(1) /\ call[1].status = "returned"
    /\ StartWith(2, {call[1].code}, {call[1].vehicle}, RepairCalls)

RepairNext ==
    \/ RepairFirst
    \/ RepairSecond
    \/ \E p \in Procs : Enter(p)
    \/ \E p \in Procs : PromotedWrite(p)
    \/ \E p \in Procs : KbRead(p)
    \/ \E p \in Procs : KbWrite(p)

RepairSpec == RepairInit /\ [][RepairNext]_vars

\* no find_one raised in one call and not in the other: both calls read the promoted
\* summary, or neither did
SameReads == (call[1].pv # None) <=> (call[2].pv # None)

\* C34: read-repair converges in one step: after a call has read a promoted summary or
\* a primary record and persisted its sanitized form, a second call for the same key,
\* with no other write in between, writes no store and returns the same record
C34_RepairConverges ==
    (/\ Done(1) /\ call[1].status = "returned"
     /\ Done(2) /\ call[2].status = "returned"
     /\ call[1].n_repair > 0
     /\ SameReads) =>
        /\ call[2].n_repair = 0 /\ call[2].wfail = {}
        /\ call[2].ret = call[1].ret

KeyFields == {"code", "make", "model", "year", "engine"}

\* coll holds at most one document per (code, make, model, year, engine)
OnePerKey(coll) ==
    \A d1, d2 \in coll : (\A f \in KeyFields : d1[f] = d2[f]) => d1 = d2

\* a vehicle field trimmed and lower-cased, an absent one taken as empty
Trimmed(x) == Lower(Strip(IF x = NoneV THEN "" ELSE x))

KeyVehicles ==
    {VEmpty, VAllNone, VHilux,
     [kind |-> "dict", make |-> " toyota ", model |-> "HILUX", year |-> "", engine |-> NoneV],
     [kind |-> "dict", make |-> "Toyota", model |-> "Hilux", year |-> "2015", engine |-> NoneV],
     [kind |-> "dict", make |-> "Toyota", model |-> "Hi lux", year |-> NoneV, engine |-> NoneV],
     [kind |-> "dict", make |-> "Toyot", model |-> "Hilux", year |-> NoneV, engine |-> " 2.4L"]}

\* two vehicles give the same key exactly when their four fields agree once trimmed
\* and lower-cased
KeysExact ==
    \A v1, v2 \in KeyVehicles :
        (vehicle_key("P0301", v1) = vehicle_key("P0301", v2)) <=>
            (\A f \in {"make", "model", "year", "engine"} : Trimmed(v1[f]) = Trimmed(v2[f]))

MaxRequests == 2

\* USAGE_LIMIT_WINDOW_DAYS at its default
window_days == 30

\* time passes between requests in strides that outlast the window, up to day MaxDay
TickDays == window_days + 1
MaxDay == 31

HookSenders == {"whatsapp:+263771000001", "whatsapp:+263772000002"}

HookTexts == {"p0301 Toyota Hilux", " P0420\n", "hello there", "P030"}

HookEnvs ==
    {DefaultHookEnv,
     [validate |-> TRUE, limit |-> 1,
      allowed |-> "whatsapp:+263772000002, whatsapp:+263773000003", send_reply |-> TRUE],
     [validate |-> FALSE, limit |-> 2, allowed |-> "", send_reply |-> FALSE]}

\* INTERNET_FALLBACK_ENABLED is off: get_external_obd returns at its entry
HookConfigs == {c \in Configs : ~c.internet /\ c.save_env = "unset"}

limit_reply == "Limit reached. Reply later or contact support to upgrade."

help_reply == "Send an OBD-II code like P0171. Optional: add vehicle (e.g., Corolla 2015 1.6L)."

\* _is_allowed_number
is_allowed_number(env, phone_number) ==
    IF env.allowed = "" THEN FALSE
    ELSE phone_number \in SeqToSet(StripNonEmpty(SplitOn(env.allowed, {","})))

\* count_documents({"phone_number": ..., "created_at": {"$gte": window_start}})
count_documents(logs, phone_number, window_start) ==
    Cardinality({i \in 1..Len(logs) : /\ logs[i].phone_number = phone_number
                                      /\ logs[i].created_at >= window_start})

\* variant: one message more than the limit is let through
limit_exceeded(count, limit) == count > limit

\* _check_usage_limit: if count >= limit
limit_reached(count, limit) == count >= limit

\* variant: every parsed text is accepted
code_always_accepted(code) == TRUE

\* twilio_webhook: the negation of "not code or not validate_obd_code(code)"
code_accepted(code) == code # NoneV /\ code # "" /\ validate_obd_code(code)

\* variant: nothing is logged
log_dropped(logs, h) == logs

\* the entry insert_one adds for the request of handler state h
log_inserted(logs, h) ==
    Append(logs, [phone_number |-> h.from, request_text |-> h.text,
                  response_text |-> h.reply,
                  code |-> IF h.kind = "resolved" THEN h.code ELSE NoneV,
                  created_at |-> h.now])

\* the handler ends with an unhandled exception
HookRaised(h) == [h EXCEPT !.pc = "done", !.response = "500"]

\* lines 133-151: a request arrives; its signature is checked; an allow-listed sender,
\* or no configured limit, goes on to the parsing without an await
HookReceive ==
    /\ hook.pc \in {"idle", "done"}
    /\ hook.nreq < MaxRequests
    /\ \E from \in HookSenders, text \in HookTexts, sig_ok \in BOOLEAN :
          LET h == [HookIdle EXCEPT !.env = hook.env, !.now = hook.now,
                                    !.nreq = hook.nreq + 1,
                                    !.from = from, !.text = Strip(text),
                                    !.sig_ok = sig_ok,
                                    !.logs_before = message_logs,
                                    !.stores_before = stores,
                                    !.ncalls_before = ncalls]
          IN  hook' = IF h.env.validate /\ ~sig_ok
                      THEN [h EXCEPT !.pc = "done", !.response = "403"]
                      ELSE IF is_allowed_number(h.env, from) \/ h.env.limit <= 0
                           THEN [h EXCEPT !.pc = "parse"]
                           ELSE [h EXCEPT !.pc = "count"]
    /\ UNCHANGED <<message_logs, call, ncalls, pm, ws, san, cfg, stores>>

\* _check_usage_limit lines 112-121, twilio_webhook lines 150-160
HookCount ==
    /\ hook.pc = "count"
    /\ \E ok \in BOOLEAN :
          hook' = IF ~ok THEN HookRaised(hook)
                  ELSE IF limit_reached(count_documents(message_logs, hook.from,
                                                        hook.now - window_days),
                                        hook.env.limit)
                       THEN [hook EXCEPT !.pc = "send", !.kind = "limit",
                                         !.reply = limit_reply]
                       ELSE [hook EXCEPT !.pc = "parse"]
    /\ UNCHANGED <<message_logs, call, ncalls, pm, ws, san, cfg, stores>>

\* lines 161-182, reached with no limit message: the text is parsed; without an
\* accepted code the help reply is next, with one get_obd_info(db, code) is called,
\* without a vehicle
HookParse ==
    /\ hook.pc = "parse"
    /\ \E parsed \in {parse_message(hook.text)} :
          LET g == [hook EXCEPT !.code = parsed.code,
                                !.vehicle = [kind |-> "dict", make |-> parsed.make,
                                             model |-> parsed.model, year |-> parsed.year,
                                             engine |-> parsed.engine]]
          IN  IF code_accepted(parsed.code)
              THEN /\ hook' = [g EXCEPT !.pc = "resolve", !.kind = "resolved"]
                   /\ BeginCall(1, {parsed.code}, {VNone}, ncalls + 1)
              ELSE /\ hook' = [g EXCEPT !.pc = "send", !.kind = "help", !.reply = help_reply]
                   /\ UNCHANGED <<call, ncalls>>
    /\ UNCHANGED <<message_logs, pm, ws, san, cfg, stores>>

\* lines 184-191: get_obd_info returned, the reply is formatted; or it raised.  The
\* locals of the call are gone
HookResolved ==
    /\ hook.pc = "resolve"
    /\ Done(1)
    /\ hook' = IF call[1].status = "raised" THEN HookRaised(hook)
               ELSE [hook EXCEPT !.pc = "send", !.reply = webhook_reply(hook.code, Rec(1))]
    /\ call' = [call EXCEPT ![1] = IdleCall]
    /\ UNCHANGED <<message_logs, ncalls, pm, ws, san, cfg, stores>>

\* _maybe_send_reply_via_twilio: a request to the Twilio API when TWILIO_SEND_REPLY
\* is on; ok = FALSE is that request raising
HookSend ==
    /\ hook.pc = "send"
    /\ \E ok \in (IF hook.env.send_reply THEN BOOLEAN ELSE {TRUE}) :
          hook' = IF ok THEN [hook EXCEPT !.pc = "log"] ELSE HookRaised(hook)
    /\ UNCHANGED <<message_logs, call, ncalls, pm, ws, san, cfg, stores>>

\* insert_one into message_logs, then return {"ok": True}
HookLog ==
    /\ hook.pc = "log"
    /\ \E ok \in BOOLEAN :
          IF ok
          THEN /\ message_logs' = log_inserted(message_logs, hook)
               /\ hook' = [hook EXCEPT !.pc = "done", !.response = "200"]
          ELSE /\ message_logs' = message_logs
               /\ hook' = HookRaised(hook)
    /\ UNCHANGED <<call, ncalls, pm, ws, san, cfg, stores>>

\* days pass between two requests; nothing of the last request is left in the handler
HookTick ==
    /\ hook.pc \in {"idle", "done"}
    /\ hook.now + TickDays <= MaxDay
    /\ hook' = [HookIdle EXCEPT !.env = hook.env, !.nreq = hook.nreq,
                                !.now = hook.now + TickDays,
                                !.ncalls_before = ncalls]
    /\ UNCHANGED <<message_logs, call, ncalls, pm, ws, san, cfg, stores>>

\* the log entry of a request answered on day 0
EarlierEntry ==
    [phone_number |-> "whatsapp:+263771000001", request_text |-> "hello there",
     response_text |-> help_reply, code |-> NoneV, created_at |-> 0]

HookInit ==
    /\ cfg \in HookConfigs
    /\ \E env \in HookEnvs : hook = [HookIdle EXCEPT !.env = env]
    /\ message_logs \in {<<>>, <<EarlierEntry>>}
    /\ obd_codes = KbSeed
    /\ obd_summaries = {}
    /\ external_obd_cache = {}
    /\ vehicle_overrides = OverrideSeed
    /\ call = [p \in Procs |-> IdleCall]
    /\ ncalls = 0
    /\ san = SanIdle
    /\ ws = WsIdle
    /\ pm = PmIdle

\* Enter and KbWrite are the steps of get_obd_info(db, code) that a call without a
\* vehicle takes while the internet fallback is off
HookNext ==
    \/ HookReceive
    \/ HookCount
    \/ HookParse
    \/ Enter(1)
    \/ KbWrite(1)
    \/ HookResolved
    \/ HookSend
    \/ HookLog
    \/ HookTick

HookSpec == HookInit /\ [][HookNext]_vars

\* the request has been parsed
HookParsed == hook.pc \in {"resolve", "send", "log", "done"} /\ hook.kind \in {"resolved", "help"}

\* get_obd_info was called for the request in hand
CalledForRequest == ncalls > hook.ncalls_before

\* C31: the webhook calls get_obd_info only for a code that passes validate_obd_code,
\* and that code is the one parsed from the text; a request whose text holds no code
\* or an invalid one gets the format-help reply, and neither a call of get_obd_info
\* nor a change of the knowledge base, the summaries, the cache or the overrides
\* happens for it
C31_ValidatedBeforeResolve ==
    /\ (hook.pc = "resolve" \/ CalledForRequest) =>
          /\ hook.code # NoneV
          /\ validate_obd_code(hook.code)
          /\ hook.code = parse_message(hook.text).code
          /\ hook.kind = "resolved"
          /\ ncalls = hook.ncalls_before + 1
          /\ call[1].pc # "idle" => call[1].code = hook.code
    /\ (HookParsed /\ ~validate_obd_code(parse_message(hook.text).code)) =>
          /\ hook.kind = "help"
          /\ hook.reply = help_reply
          /\ ~CalledForRequest
          /\ call[1].pc = "idle"
          /\ stores = hook.stores_before

\* a request with a code one digit short was answered with the help reply
C31_Witness ==
    /\ hook.response = "200"
    /\ hook.text = "P030"
    /\ hook.kind = "help"
    /\ hook.reply = help_reply
    /\ ncalls = hook.ncalls_before

\* the vehicle parse_message extracted from the text of the request in hand
ParsedVehicle ==
    LET parsed == parse_message(hook.text)
    IN  [kind |-> "dict", make |-> parsed.make, model |-> parsed.model,
         year |-> parsed.year, engine |-> parsed.engine]

\* C37: while get_obd_info runs for a request, the key it consults the summaries and
\* the cache with is the key of the code and the vehicle parsed from the request
C37_ParsedVehicleIsKey ==
    (hook.pc = "resolve" /\ call[1].pc # "idle") =>
        vehicle_key(call[1].code, call[1].vehicle) = vehicle_key(hook.code, ParsedVehicle)

\* get_obd_info runs for a request that names a vehicle
C37_Witness ==
    /\ hook.pc = "resolve"
    /\ call[1].pc # "idle"
    /\ hook.text = "p0301 Toyota Hilux"

\* the entries of the sender of the request in hand that lie inside the window
SenderInWindow(logs) ==
    Len(SelectSeq(logs, LAMBDA e : /\ e.phone_number = hook.from
                                   /\ hook.now - e.created_at <= window_days))

\* the sender is not on the allow-list and has used up a configured limit
OverLimit ==
    /\ hook.env.limit > 0
    /\ ~is_allowed_number(hook.env, hook.from)
    /\ SenderInWindow(hook.logs_before) >= hook.env.limit

\* the handler is past the usage check of the request in hand
LimitDecided ==
    \/ hook.pc \in {"parse", "resolve", "send", "log"}
    \/ hook.pc = "done" /\ hook.response = "200"

\* C38: a request is answered with the limit reply exactly when a limit L > 0 is set,
\* the sender is not allow-listed and has L or more log entries inside the window;
\* get_obd_info is not called for it, and its own log entry adds one to the sender's
\* entries inside the window, so the next request finds the sender blocked as well;
\* an allow-listed sender is never blocked
C38_LimitBlocks ==
    /\ LimitDecided => (OverLimit <=> hook.kind = "limit")
    /\ hook.kind = "limit" =>
          /\ hook.reply = limit_reply
          /\ ~CalledForRequest
          /\ call[1].pc = "idle"
          /\ stores = hook.stores_before
    /\ is_allowed_number(hook.env, hook.from) => hook.kind # "limit"
    /\ (hook.response = "200" /\ hook.kind = "limit") =>
          SenderInWindow(message_logs) = SenderInWindow(hook.logs_before) + 1

\* a sender was blocked, and blocked again on the next request
C38_Witness ==
    /\ hook.nreq = 2
    /\ hook.response = "200"
    /\ hook.kind = "limit"
    /\ Len(hook.logs_before) >= 1
    /\ hook.logs_before[Len(hook.logs_before)].phone_number = hook.from
    /\ hook.logs_before[Len(hook.logs_before)].response_text = limit_reply

\* the log entry the request in hand calls for
EntryOfRequest ==
    [phone_number |-> hook.from, request_text |-> hook.text,
     response_text |-> hook.reply,
     code |-> IF hook.kind = "resolved" THEN parse_message(hook.text).code ELSE NoneV,
     created_at |-> hook.now]

=============================================================================
